---------------------------- MODULE Spec2Model ----------------------------
(***************************************************************************)
(* A model of mc-tui: the entity registry and the tick step                *)
(* (src/src/game/entity_manager.rs, player.rs, mod.rs), the connection     *)
(* (src/src/net.rs) and the buffered reader (src/src/buffered_reader.rs).  *)
(*                                                                         *)
(* The module holds several specifications over one list of variables;     *)
(* each one moves its own group of variables and leaves the others at      *)
(* their initial value:                                                    *)
(*   Spec        the entity registry driven by the tick step               *)
(*   SpecSpawn   the entity registry under spawns and destroys             *)
(*   SpecNet     decode tasks, inbound queues and the tick step            *)
(*   SpecConn    the handshake of Connection::connect_offline              *)
(*   SpecSend    the write loop of Connection::send                        *)
(*   SpecWire    two tasks in Connection::send on one connection           *)
(*   SpecReader  BufferedReader::read_bytes                                *)
(*   SpecSession the tasks of a session: decode, position, tick            *)
(*   SpecCodec   Packet::write and Packet::try_read (src/src/packets.rs)   *)
(*   SpecParse   World::parse on a fresh world (src/src/world.rs)          *)
(*   SpecWorld   the updates and lookups of the world                      *)
(***************************************************************************)
EXTENDS Integers, Sequences, FiniteSets, TLC

VARIABLES
    \* ---- entity registry and tick step (Spec)
    em,         \* the EntityManager
    known,      \* Player.known_entities, per session
    stop,       \* Player.stop, per session
    tpc,        \* position of GlobalContext::tick
    cur,        \* index in ctx.players of the session being ticked
    crashed,    \* the process died (stack overflow in entity_move)
    last,       \* history: the last registry event and the state before it
    stopAge,    \* history: ticks seen since the session's stop flag was set
    events,     \* history: number of packets handled so far
    \* ---- BufferedReader (SpecReader)
    rd,         \* the BufferedReader: buffer, pos, available, decrypt_enable
    rpc,        \* position of read_bytes: "idle", "loop", "failed", "panic"
    rcount,     \* the count of the call in progress (of the last call when idle)
    sock,       \* index in the inbound stream of the next byte the socket delivers
    returned,   \* history: the slices returned so far, concatenated
    rres,       \* history: outcome and slice of the last call
    rmoved,     \* history: a compaction has moved unread bytes
    \* ---- Connection::send (SpecSend)
    spc,        \* position of send: "idle", "loop", "done"
    raw_len,    \* raw_packet.len()
    bytes_sent,
    tries,
    sres,       \* the value send returned: "none", "ok", "err_budget", "err_io"
    \* ---- Connection::connect_offline (SpecConn)
    conn,       \* the Connection and its reader: encryption, encrypter,
                \* decrypt_enable, decrypter, sender_loop
    cpc,        \* position of connect_offline
    cres,       \* what connect_offline returned: "none", "ok", "err", "panic"
    wire,       \* history: the packets written to the socket, with how
    replies,    \* history: the packets decoded during the handshake
    decryptAt,  \* history: lengths of replies and wire when decryption went on
    \* ---- the decode task and the inbound queue of each session (SpecNet)
    sender_loop, \* per session, the decode task: "reading", "sending", "ended"
    held,       \* per session, the packet the task is sending (Some or None)
    inbound,    \* per session, the queue between the task and the session
    decoded,    \* history: per session, the packets try_read returned
    delivered,  \* history: per session, the packets recv handed over
    failed,     \* history: per session, why decoding failed, or "no"
    since,      \* history: per session, whether another session's task
                \* decoded a packet after this one's ended
    \* ---- the sessions, their tasks and the tick step (SpecSession)
    plr,        \* per session, the Player: stop, pos_update, pos, pos_update_loop
    lock,       \* per session, the RwLock around the Player: "free", "read", "write"
    ppc,        \* per session, the position-update task: "interval", "send", "cancelled"
    dpc,        \* per session, the decode task: "reading", "sending", "ended"
    dheld,      \* per session, the packet the decode task is sending
    rxq,        \* per session, Connection.inbound
    streamed,   \* per session, the number of packets decoded so far
    gpc,        \* the game loop: "idle", "lock", "recv", "batch", "send", "panicked"
    gcur,       \* index in ctx.players of the session being ticked
    batch,      \* inbound_buffer of the Player::tick in progress
    handled,    \* history: per session, the packets handed to handle_packet
    after,      \* history: per session, 0, 1 once stopped, 2 once skipped by a tick
    endAge,     \* history: per session, 0, 1 once its decode task has failed,
                \* 2 once a tick has started since
    prevPos,    \* history: per session, pos at the previous period of the task
    fatal,      \* history: sessions whose packet handling raised a fatal error
    \* ---- packets written and read back (SpecCodec)
    kpc,        \* "idle", "picked", "written", "read"
    kpacket,    \* the packet handed to write
    kbytes,     \* what write returned, followed by the bytes of the next packet
    kwritten,   \* the number of bytes write returned
    kres,       \* what try_read returned on kbytes
    \* ---- World::parse on a fresh world (SpecParse) ----
    chpc,       \* "idle", "picked", "parsed"
    chin,       \* the payload and the arguments handed to parse
    chout,      \* what parse left: the columns and whether it returned
    \* ---- the world of the game context (SpecWorld) ----
    columns,    \* World.columns: chunk position -> ChunkColumn
    wpc,        \* "running", or "panicked" once a world update panicked
    wgot,       \* the last get_block call since the last update, if any
    \* ---- two tasks sending on one connection (SpecWire) ----
    xenc,       \* "connecting", then Connection.encryption: "plain", "encrypted"
    xtask,      \* per task, its call of send: pc, kind, raw_packet, bytes_sent, tries
    xcipher,    \* the number of bytes the encrypter has been run over
    xwire,      \* history: the bytes written to the socket, in order
    xsends      \* history: the number of send calls so far

regVars == <<em, known, stop, tpc, cur, crashed, last, stopAge, events>>

rdVars == <<rd, rpc, rcount, sock, returned, rres, rmoved>>

sendVars == <<spc, raw_len, bytes_sent, tries, sres>>

connVars == <<conn, cpc, cres, wire, replies, decryptAt>>

netVars == <<sender_loop, held, inbound, decoded, delivered, failed, since>>

sessVars == <<plr, lock, ppc, dpc, dheld, rxq, streamed, gpc, gcur, batch,
              handled, after, endAge, prevPos, fatal>>

codecVars == <<kpc, kpacket, kbytes, kwritten, kres>>

parseVars == <<chpc, chin, chout>>

worldVars == <<columns, wpc, wgot>>

wireVars == <<xenc, xtask, xcipher, xwire, xsends>>

vars == <<regVars, rdVars, sendVars, connVars, netVars, sessVars, codecVars,
          parseVars, worldVars, wireVars>>

\* what the actions of each specification leave alone
RegFrame == UNCHANGED <<rdVars, sendVars, connVars, netVars, sessVars, codecVars,
                        parseVars, worldVars,
                        wireVars>>
ReaderFrame == UNCHANGED <<regVars, sendVars, connVars, netVars, sessVars, codecVars,
                        parseVars, worldVars,
                        wireVars>>
SendFrame == UNCHANGED <<regVars, rdVars, connVars, netVars, sessVars, codecVars,
                        parseVars, worldVars,
                        wireVars>>
ConnFrame == UNCHANGED <<regVars, rdVars, sendVars, netVars, sessVars, codecVars,
                        parseVars, worldVars,
                        wireVars>>
NetFrame == UNCHANGED <<regVars, rdVars, sendVars, connVars, sessVars, codecVars,
                        parseVars, worldVars,
                        wireVars>>
SessFrame == UNCHANGED <<regVars, rdVars, sendVars, connVars, netVars, codecVars,
                        parseVars, worldVars,
                        wireVars>>
CodecFrame == UNCHANGED <<regVars, rdVars, sendVars, connVars, netVars, sessVars,
                        parseVars, worldVars,
                        wireVars>>
ParseFrame == UNCHANGED <<regVars, rdVars, sendVars, connVars, netVars, sessVars,
                        codecVars, worldVars,
                        wireVars>>
WorldFrame == UNCHANGED <<regVars, rdVars, sendVars, connVars, netVars, sessVars,
                        codecVars, parseVars,
                        wireVars>>
WireFrame == UNCHANGED <<regVars, rdVars, sendVars, connVars, netVars, sessVars,
                        codecVars, parseVars, worldVars>>

(***************************************************************************)
(* Bounds of the model.                                                    *)
(***************************************************************************)
MaxEvents == 4
MaxChildren == 2
MaxCoord == 3
\* BufferedReader: the request ceiling, scaled down from 65535, and the
\* number of bytes the peer sends before it goes silent
PACKET_SIZE == 4
StreamLen == 9
\* Connection::send: the longest packet, and the cap on the tries counter
MaxPacketLen == 3
TriesCap == 8
\* connect_offline: the packets sent on the connection once it is returned
MaxLaterSends == 4
\* the capacity of the inbound queue and the limit of one recv, 1000 in
\* the program (net.rs 105 and 55), scaled down
QueueCap == 2
\* packets one decode task decodes
MaxDecoded == 4
\* packets the servers send to the sessions of SpecSession, all together
MaxStream == 3
\* SpecWire: the calls of send on the connection, and the bytes of a packet
MaxWireSends == 3
WirePacketLen == 2

\* Player.id of each session, from NEXT_ID
Sessions == {0, 1}
\* ctx.players, in the order main() adds them
players == <<0, 1>>

EIDS == {7, 9}
DETACH == 0 - 1

(***************************************************************************)
(* Positions.  An f64 coordinate that is a multiple of 1/32 is the pair    *)
(* <<whole, frac>> standing for whole + frac/32 with frac in 0..31.        *)
(***************************************************************************)
\* the division dropping the fraction
Div32_whole(x) == <<x \div 32, 0>>

\* x / 32.
Div32(x) == <<x \div 32, x % 32>>

from_abs_int(v) == <<Div32(v[1]), Div32(v[2]), Div32(v[3])>>

RAdd(a, b) == <<a[1] + b[1] + ((a[2] + b[2]) \div 32), (a[2] + b[2]) % 32>>

RSub(a, b) == <<a[1] - b[1] + ((a[2] - b[2]) \div 32), (a[2] - b[2]) % 32>>

pos_add(a, b) == <<RAdd(a[1], b[1]), RAdd(a[2], b[2]), RAdd(a[3], b[3])>>

pos_sub(a, b) == <<RSub(a[1], b[1]), RSub(a[2], b[2]), RSub(a[3], b[3])>>

Zero3 == <<<<0, 0>>, <<0, 0>>, <<0, 0>>>>

\* wire vectors (fixed-point integers) the server sends in this model
SpawnVecs == {<<320, 2048, 320>>, <<0, 0, 0>>}
\* the spawn packets the server sends in Spec: zombies (mob code 54)
SpawnPackets ==
    {[kind |-> "SpawnMob", type |-> 54, vec |-> v] : v \in SpawnVecs}
\* the spawn packets the server sends in SpecSpawn: a zombie, a mob code the
\* lookup does not hold, and a boat
SpawnSamples ==
    {[kind |-> "SpawnMob", type |-> 54, vec |-> <<320, 2048, 320>>],
     [kind |-> "SpawnMob", type |-> 49, vec |-> <<0, 0, 0>>],
     [kind |-> "SpawnObject", type |-> 1, vec |-> <<48, 64, 0 - 16>>]}
TeleportVecs == {<<48, 64, 0 - 16>>}
DeltaVecs == {<<32, 0, 0>>}

InRange(p) == \A i \in 1 .. 3 : p[i][1] <= MaxCoord /\ p[i][1] >= 0 - MaxCoord

(***************************************************************************)
(* Option<i32>                                                             *)
(***************************************************************************)
None == <<>>
Some(x) == <<x>>

(***************************************************************************)
(* EntityManager                                                           *)
(***************************************************************************)
EmptyMap == [x \in {} |-> 0]

EmInit ==
    [ update |-> TRUE,
      entities |-> <<>>,
      ids |-> {},
      ownership |-> EmptyMap,
      moved |-> {},
      orphaned |-> {},
      deleted |-> <<>> ]

\* entities.iter().position(|e| e.id == eid): the first match, 0 for None
IndexOf(entities, eid) ==
    IF \E i \in 1 .. Len(entities) : entities[i].id = eid
    THEN CHOOSE i \in 1 .. Len(entities) :
            /\ entities[i].id = eid
            /\ \A j \in 1 .. (i - 1) : entities[j].id # eid
    ELSE 0

RemoveAt(s, i) == [j \in 1 .. (Len(s) - 1) |-> IF j < i THEN s[j] ELSE s[j + 1]]

\* HashMap::insert and HashMap::remove
MapInsert(f, k, v) == [x \in (DOMAIN f) \cup {k} |-> IF x = k THEN v ELSE f[x]]
MapRemove(f, k) == [x \in (DOMAIN f) \ {k} |-> f[x]]

\* to_mob_type: the arms of the match
MobTypes ==
    {<<50, "Creeper">>, <<51, "Skeleton">>, <<52, "Spider">>,
     <<53, "GiantZombie">>, <<54, "Zombie">>, <<55, "Slime">>,
     <<56, "Ghast">>, <<57, "ZombiePigman">>, <<58, "Enderman">>,
     <<59, "CaveSpider">>, <<60, "Silverfish">>, <<61, "Blaze">>,
     <<62, "MagmaCube">>, <<63, "EnderDragon">>, <<64, "Wither">>,
     <<65, "Bat">>, <<66, "Witch">>, <<67, "Endermite">>,
     <<68, "Guardian">>, <<69, "Shulker">>, <<90, "Pig">>, <<91, "Sheep">>,
     <<92, "Cow">>, <<93, "Chicken">>, <<94, "Squid">>, <<95, "Wolf">>,
     <<96, "Mooshroom">>, <<97, "Snowman">>, <<98, "Ocelot">>,
     <<99, "IronGolem">>, <<100, "Horse">>, <<101, "Rabbit">>,
     <<102, "PolarBear">>, <<120, "Villager">>}

\* to_object_type: the arms of the match
ObjectTypes ==
    {<<1, "Boat">>, <<2, "ItemStack">>, <<3, "AreaEffectCloud">>,
     <<10, "Minecrart">>, <<50, "ActivatedTNT">>, <<51, "EnderCrystal">>,
     <<60, "Arrow">>, <<61, "Snowball">>, <<62, "Egg">>, <<63, "FireBall">>,
     <<64, "FireCharge">>, <<65, "EnderPearl">>, <<66, "WitherSkull">>,
     <<67, "ShulkerBullet">>, <<70, "FallenObject">>, <<71, "ItemFrame">>,
     <<72, "EyeOfEnder">>, <<73, "Potion">>, <<75, "ExpBottle">>,
     <<76, "FireworkRocket">>, <<77, "LeashKnot">>, <<78, "ArmorStand">>,
     <<90, "FishingFloat">>, <<91, "SpectralArrow">>,
     <<93, "DragonFireball">>}

\* match id { ... _ => Unknown }
Lookup(table, id) ==
    IF \E e \in table : e[1] = id
    THEN (CHOOSE e \in table : e[1] = id)[2]
    ELSE "Unknown"

to_mob_type(id) == Lookup(MobTypes, id)

to_object_type(id) == Lookup(ObjectTypes, id)

\* every spawn taken for a mob
EntityTypeOf_mob(packet) == <<"Mob", to_mob_type(packet.type)>>

\* EntityType::Mob(to_mob_type(..)) and EntityType::Object(to_object_type(..))
EntityTypeOf(packet) ==
    IF packet.kind = "SpawnMob"
    THEN <<"Mob", to_mob_type(packet.type)>>
    ELSE <<"Object", to_object_type(packet.type)>>

\* the Entity a spawn arm pushes; name is None and info follows from etype
NewEntity(eid, etype, pos) ==
    [ id |-> eid,
      etype |-> etype,
      new |-> TRUE,
      pos |-> pos,
      last_position |-> pos,
      parent |-> None,
      children |-> <<>>,
      last_movement |-> Zero3 ]

EmTick(m) ==
    [m EXCEPT !.moved = {},
              !.deleted = <<>>,
              !.update = FALSE,
              !.entities = [i \in 1 .. Len(m.entities) |->
                              [m.entities[i] EXCEPT !.last_position = m.entities[i].pos,
                                                     !.last_movement = Zero3,
                                                     !.new = FALSE]]]

\* the test made on the ownership map instead
ids_contains_owned(m, eid) == eid \in DOMAIN m.ownership

\* ids.contains(&eid)
ids_contains(m, eid) == eid \in m.ids

\* handle_packet, Packet::SpawnObject and Packet::SpawnMob
Spawn(m, eid, packet, source) ==
    IF ids_contains(m, eid)
    THEN m
    ELSE [m EXCEPT !.ownership = MapInsert(m.ownership, eid, source),
                   !.ids = m.ids \cup {eid},
                   !.entities = Append(m.entities,
                                       NewEntity(eid, EntityTypeOf(packet),
                                                 from_abs_int(packet.vec))),
                   !.update = TRUE]

(***************************************************************************)
(* entity_move.  The recursion on the children has no base case of its     *)
(* own: when the children lists hold a cycle it never returns and the      *)
(* stack overflows.  A call nested deeper than the number of stored        *)
(* entities has some entity twice on its stack, and recurs for ever; the   *)
(* result then carries overflow = TRUE.                                    *)
(***************************************************************************)
RECURSIVE entity_move(_, _, _, _, _, _)
RECURSIVE MoveChildren(_, _, _, _)

MoveChildren(r, children, position, depth) ==
    IF children = <<>> \/ r.overflow
    THEN r
    ELSE LET child == Head(children)
             r1 == IF child \in DOMAIN r.m.ownership
                   THEN entity_move(r.m, position, TRUE, child,
                                    r.m.ownership[child], depth + 1)
                   ELSE r
         IN MoveChildren(r1, Tail(children), position, depth)

entity_move(m, vector, absolute, eid, source, depth) ==
    IF depth > Len(m.entities)
    THEN [m |-> m, overflow |-> TRUE]
    ELSE IF eid \notin DOMAIN m.ownership
    THEN [m |-> m, overflow |-> FALSE]
    ELSE IF m.ownership[eid] # source
    THEN [m |-> m, overflow |-> FALSE]
    ELSE LET idx == IndexOf(m.entities, eid)
         IN IF idx = 0
            THEN [m |-> m, overflow |-> FALSE]
            ELSE LET entity == m.entities[idx]
                     \* absolute: entity.pos is assigned first, so the
                     \* difference added to last_movement is vector - vector
                     pos1 == IF absolute THEN vector ELSE pos_add(entity.pos, vector)
                     lm1 == IF absolute
                            THEN pos_add(entity.last_movement, pos_sub(vector, pos1))
                            ELSE pos_add(entity.last_movement, vector)
                     m1 == [m EXCEPT !.update = TRUE,
                                     !.moved = m.moved \cup {eid},
                                     !.entities[idx] =
                                        [entity EXCEPT !.pos = pos1,
                                                       !.last_movement = lm1]]
                 IN MoveChildren([m |-> m1, overflow |-> FALSE],
                                 entity.children, pos1, depth)

RECURSIVE entity_destroy(_, _, _)
entity_destroy(m, ids, source) ==
    IF ids = <<>>
    THEN m
    ELSE LET eid == Head(ids)
         IN IF eid \notin m.ids
            THEN m    \* return: the rest of the batch is not looked at
            ELSE LET m1 == IF eid \in DOMAIN m.ownership /\ m.ownership[eid] = source
                           THEN [m EXCEPT !.ownership = MapRemove(m.ownership, eid),
                                          !.orphaned = m.orphaned \cup {eid}]
                           ELSE m
                 IN entity_destroy(m1, Tail(ids), source)

detach(m, eid) ==
    LET entity_idx == IndexOf(m.entities, eid)
    IN IF entity_idx = 0
       THEN m
       ELSE LET m1 == [m EXCEPT !.entities[entity_idx].parent = None]
                parent == m1.entities[entity_idx].parent   \* read after the write
            IN IF parent # None
               THEN LET vidx == IndexOf(m1.entities, parent[1])
                    IN IF vidx = 0
                       THEN m1
                       ELSE LET ch == m1.entities[vidx].children
                                cidx == IF \E i \in 1 .. Len(ch) : ch[i] = eid
                                        THEN CHOOSE i \in 1 .. Len(ch) :
                                                /\ ch[i] = eid
                                                /\ \A j \in 1 .. (i - 1) : ch[j] # eid
                                        ELSE 0
                            IN IF cidx = 0
                               THEN m1
                               ELSE [m1 EXCEPT !.entities[vidx].children = RemoveAt(ch, cidx)]
               ELSE m1

attach(m, eid, vehicle_id) ==
    LET idx == IndexOf(m.entities, eid)
        m1 == IF idx # 0
              THEN [m EXCEPT !.entities[idx].parent = Some(vehicle_id)]
              ELSE m
        vidx == IndexOf(m1.entities, vehicle_id)
    IN IF vidx # 0
       THEN [m1 EXCEPT !.entities[vidx].children = Append(@, eid)]
       ELSE m1

\* entity_attach without the ownership test
entity_attach_unchecked(m, eid, vehicle_eid, source) ==
    IF vehicle_eid = DETACH
    THEN detach(m, eid)
    ELSE attach(m, eid, vehicle_eid)

\* handle_packet, Packet::EntityAttach
entity_attach(m, eid, vehicle_eid, source) ==
    IF ~(eid \in DOMAIN m.ownership /\ m.ownership[eid] = source)
    THEN m
    ELSE IF vehicle_eid = DETACH
    THEN detach(m, eid)
    ELSE attach(m, eid, vehicle_eid)

(***************************************************************************)
(* check_orphaned.  `order` is the order in which the HashSet of orphans   *)
(* is iterated; `kn` gives each session's known_entities.                  *)
(***************************************************************************)
\* the scan testing the registry's own id set instead of the session's
NewOwnerOf_registry_ids(orphan, kn) == Some(players[Len(players)])

\* the owner the inner loop leaves: the last session of `players` that knows it
NewOwnerOf(orphan, kn) ==
    LET cands == {i \in 1 .. Len(players) : orphan \in kn[players[i]]}
    IN IF cands = {}
       THEN None
       ELSE Some(players[CHOOSE i \in cands : \A j \in cands : j <= i])

\* a resolution that removes the entity and leaves its id in the id set
ResolveOrphan_keeps_id(m, orphan, kn) ==
    LET owner == NewOwnerOf(orphan, kn)
    IN IF owner # None
       THEN [m EXCEPT !.ownership = MapInsert(m.ownership, orphan, owner[1])]
       ELSE LET index == IndexOf(m.entities, orphan)
            IN IF index # 0
               THEN [m EXCEPT !.deleted = Append(m.deleted, orphan),
                              !.entities = RemoveAt(m.entities, index),
                              !.update = TRUE]
               ELSE m

ResolveOrphan(m, orphan, kn) ==
    LET owner == NewOwnerOf(orphan, kn)
    IN IF owner # None
       THEN [m EXCEPT !.ownership = MapInsert(m.ownership, orphan, owner[1])]
       ELSE LET index == IndexOf(m.entities, orphan)
            IN IF index # 0
               THEN [m EXCEPT !.deleted = Append(m.deleted, orphan),
                              !.ids = m.ids \ {orphan},
                              !.entities = RemoveAt(m.entities, index),
                              !.update = TRUE]
               ELSE m

RECURSIVE ResolveAll(_, _, _)
ResolveAll(m, order, kn) ==
    IF order = <<>>
    THEN m
    ELSE ResolveAll(ResolveOrphan(m, Head(order), kn), Tail(order), kn)

check_orphaned(m, order, kn) ==
    [ResolveAll(m, order, kn) EXCEPT !.orphaned = {}]

\* the orders in which a set can be iterated
RECURSIVE Orders(_)
Orders(S) ==
    IF S = {}
    THEN {<<>>}
    ELSE UNION {{<<x>> \o t : t \in Orders(S \ {x})} : x \in S}

(***************************************************************************)
(* The tick step: GlobalContext::tick ticks the sessions one after the     *)
(* other, each followed by orphan resolution; Player::tick hands the       *)
(* packets of its batch to Player::handle_packet one by one and returns    *)
(* as soon as the stop flag is set.  The content of a batch is whatever    *)
(* the server sent: each packet is drawn when it is handled.               *)
(***************************************************************************)
Ev(op, eid, src, arg) ==
    [ op |-> op, eid |-> eid, src |-> src, arg |-> arg,
      owner |-> IF eid \in DOMAIN em.ownership THEN Some(em.ownership[eid]) ELSE None,
      tracked |-> eid \in em.ids ]

NoEvent == [op |-> "none", eid |-> 0, src |-> 0, arg |-> <<>>, owner |-> None, tracked |-> FALSE]

InitReg ==
    /\ em = EmInit
    /\ known = [s \in Sessions |-> {}]
    /\ stop = [s \in Sessions |-> FALSE]
    /\ tpc = "idle"
    /\ cur = 0
    /\ crashed = FALSE
    /\ last = NoEvent
    /\ stopAge = [s \in Sessions |-> 0]
    /\ events = 0

Bounded(m) ==
    \A i \in 1 .. Len(m.entities) :
        /\ InRange(m.entities[i].pos)
        /\ Len(m.entities[i].children) <= MaxChildren

\* Player::tick is running for session p and takes the next packet of its batch
Handling(p) ==
    /\ ~crashed
    /\ tpc = "player"
    /\ players[cur] = p
    /\ ~stop[p]
    /\ events < MaxEvents

TickStart ==
    /\ RegFrame
    /\ ~crashed
    /\ tpc = "idle"
    /\ em' = EmTick(em)
    /\ tpc' = "player"
    /\ cur' = 1
    /\ stopAge' = [s \in Sessions |-> IF stopAge[s] = 1 THEN 2 ELSE stopAge[s]]
    /\ UNCHANGED <<known, stop, crashed, last, events>>

\* Player::handle_packet, SpawnObject and SpawnMob
HandleSpawn(p, eid, packet) ==
    /\ RegFrame
    /\ Handling(p)
    /\ known' = [known EXCEPT ![p] = @ \cup {eid}]
    /\ em' = Spawn(em, eid, packet, p)
    /\ last' = Ev("spawn", eid, p, packet)
    /\ events' = events + 1
    /\ UNCHANGED <<stop, tpc, cur, crashed, stopAge>>

\* Player::handle_packet, the other packets: EntityManager::handle_packet
HandleMove(p, op, eid, vec, absolute) ==
    /\ RegFrame
    /\ Handling(p)
    /\ LET r == entity_move(em, from_abs_int(vec), absolute, eid, p, 0)
       IN /\ Bounded(r.m)
          /\ em' = IF r.overflow THEN em ELSE r.m
          /\ crashed' = r.overflow
    /\ last' = Ev(op, eid, p, vec)
    /\ events' = events + 1
    /\ UNCHANGED <<known, stop, tpc, cur, stopAge>>

HandleTeleport(p, eid, vec) == HandleMove(p, "teleport", eid, vec, TRUE)

HandleRelativeMove(p, eid, vec) == HandleMove(p, "relative_move", eid, vec, FALSE)

HandleLookAndRelativeMove(p, eid, vec) == HandleMove(p, "look_relative_move", eid, vec, FALSE)

HandleAttach(p, eid, vehicle_eid) ==
    /\ RegFrame
    /\ Handling(p)
    /\ em' = entity_attach(em, eid, vehicle_eid, p)
    /\ Bounded(em')
    /\ last' = Ev(IF vehicle_eid = DETACH THEN "detach" ELSE "attach", eid, p, <<vehicle_eid>>)
    /\ events' = events + 1
    /\ UNCHANGED <<known, stop, tpc, cur, crashed, stopAge>>

\* Player::handle_packet, EntityDestroy
HandleDestroy(p, ids) ==
    /\ RegFrame
    /\ Handling(p)
    /\ known' = [known EXCEPT ![p] = @ \ {ids[i] : i \in 1 .. Len(ids)}]
    /\ em' = entity_destroy(em, ids, p)
    /\ last' = Ev("destroy", ids[1], p, ids)
    /\ events' = events + 1
    /\ UNCHANGED <<stop, tpc, cur, crashed, stopAge>>

\* Player::handle_packet, Disconnect; Player::tick then returns true
HandleDisconnect(p) ==
    /\ RegFrame
    /\ Handling(p)
    /\ stop' = [stop EXCEPT ![p] = TRUE]
    /\ stopAge' = [stopAge EXCEPT ![p] = 1]
    /\ tpc' = "orphans"
    /\ last' = Ev("disconnect", 0, p, <<>>)
    /\ events' = events + 1
    /\ UNCHANGED <<em, known, cur, crashed>>

\* the batch is exhausted: Player::tick returns false
PlayerTickDone ==
    /\ RegFrame
    /\ ~crashed
    /\ tpc = "player"
    /\ ~stop[players[cur]]
    /\ tpc' = "orphans"
    /\ UNCHANGED <<em, known, stop, cur, crashed, last, stopAge, events>>

\* GlobalContext::tick: a stopped session is not ticked
PlayerSkipped ==
    /\ RegFrame
    /\ ~crashed
    /\ tpc = "player"
    /\ stop[players[cur]]
    /\ tpc' = "orphans"
    /\ UNCHANGED <<em, known, stop, cur, crashed, last, stopAge, events>>

\* orphan resolution, then the next session or the end of the tick
CheckOrphaned ==
    /\ RegFrame
    /\ ~crashed
    /\ tpc = "orphans"
    /\ \E order \in Orders(em.orphaned) : em' = check_orphaned(em, order, known)
    /\ last' = [NoEvent EXCEPT !.op = "check_orphaned", !.arg = em.orphaned]
    /\ IF cur < Len(players)
       THEN /\ cur' = cur + 1
            /\ tpc' = "player"
            /\ stopAge' = stopAge
       ELSE /\ cur' = 0
            /\ tpc' = "idle"
            /\ stopAge' = [s \in Sessions |-> IF stopAge[s] = 2 THEN 3 ELSE stopAge[s]]
    /\ UNCHANGED <<known, stop, crashed, events>>

DestroyBatches == {<<7>>, <<9>>, <<7, 9>>, <<9, 7>>}

NextReg ==
    \/ TickStart
    \/ \E p \in Sessions, eid \in EIDS, packet \in SpawnPackets : HandleSpawn(p, eid, packet)
    \/ \E p \in Sessions, eid \in EIDS, vec \in TeleportVecs : HandleTeleport(p, eid, vec)
    \/ \E p \in Sessions, eid \in EIDS, vec \in DeltaVecs : HandleRelativeMove(p, eid, vec)
    \/ \E p \in Sessions, eid \in EIDS, vec \in DeltaVecs : HandleLookAndRelativeMove(p, eid, vec)
    \/ \E p \in Sessions, eid \in EIDS, v \in EIDS \cup {DETACH} : HandleAttach(p, eid, v)
    \/ \E p \in Sessions, ids \in DestroyBatches : HandleDestroy(p, ids)
    \/ \E p \in Sessions : HandleDisconnect(p)
    \/ PlayerTickDone
    \/ PlayerSkipped
    \/ CheckOrphaned

\* SpecSpawn: the sessions receive spawns of every kind, destroys and
\* disconnects, and no other entity packet
NextSpawn ==
    \/ TickStart
    \/ \E p \in Sessions, eid \in EIDS, packet \in SpawnSamples : HandleSpawn(p, eid, packet)
    \/ \E p \in Sessions, ids \in DestroyBatches : HandleDestroy(p, ids)
    \/ \E p \in Sessions : HandleDisconnect(p)
    \/ PlayerTickDone
    \/ PlayerSkipped
    \/ CheckOrphaned

(***************************************************************************)
(* BufferedReader.  A byte is the record of its index in the inbound       *)
(* stream (0 for the zero the buffer is filled with) and of the number of  *)
(* times the decrypter has been run over it.                               *)
(***************************************************************************)
BufSize == PACKET_SIZE * 2

ZeroByte == [i |-> 0, d |-> 0]

RdNew ==
    [ buffer |-> [k \in 0 .. (BufSize - 1) |-> ZeroByte],
      pos |-> 0,
      available |-> 0,
      decrypt_enable |-> FALSE ]

\* compaction that resets pos and forgets to move the unread bytes
compact_buffer_no_copy(r) == [r EXCEPT !.pos = 0]

\* buffer.copy_within(pos .. available + pos, 0); pos = 0
compact_buffer(r) ==
    [r EXCEPT !.buffer = IF r.available > 0
                         THEN [k \in 0 .. (BufSize - 1) |->
                                 IF k < r.available THEN r.buffer[r.pos + k] ELSE r.buffer[k]]
                         ELSE r.buffer,
              !.pos = 0]

\* read: try_read puts the next n bytes of the stream after the unread
\* bytes; with decrypt_enable the decrypter is then run over them in place
ReadInto(r, first, n) ==
    LET at == r.pos + r.available
    IN [r EXCEPT !.buffer =
            [k \in 0 .. (BufSize - 1) |->
                IF k >= at /\ k < at + n
                THEN [i |-> first + (k - at), d |-> IF r.decrypt_enable THEN 1 ELSE 0]
                ELSE r.buffer[k]]]

Slice(r, count) == [k \in 1 .. count |-> r.buffer[r.pos + k - 1]]

NoResult == [kind |-> "none", slice |-> <<>>]

InitReader ==
    /\ rd = RdNew
    /\ rpc = "idle"
    /\ rcount = 0
    /\ sock = 1
    /\ returned = <<>>
    /\ rres = NoResult
    /\ rmoved = FALSE

\* the largest count a caller asks for
MaxRequest == PACKET_SIZE + 1

\* a ceiling test that lets a request of exactly PACKET_SIZE through
Oversized_above(count) == count > PACKET_SIZE

\* if count >= PACKET_SIZE { return Err("Requested more than you can chew") }
Oversized(count) == count >= PACKET_SIZE

\* read_bytes(count) is called; a count at or above the ceiling is refused
ReadBytesCall(count) ==
    /\ ReaderFrame
    /\ rpc = "idle"
    /\ rcount' = count
    /\ IF Oversized(count)
       THEN /\ rres' = [kind |-> "oversized", slice |-> <<>>]
            /\ rpc' = "idle"
       ELSE /\ rres' = NoResult
            /\ rpc' = "loop"
    /\ UNCHANGED <<rd, sock, returned, rmoved>>

\* the loop finds enough unread bytes and returns the slice
ReadBytesReturn ==
    /\ ReaderFrame
    /\ rpc = "loop"
    /\ rd.available >= rcount
    /\ IF rd.pos + rcount > BufSize
       THEN /\ rpc' = "panic"
            /\ UNCHANGED <<rd, returned, rres>>
       ELSE /\ rd' = [rd EXCEPT !.available = rd.available - rcount,
                                 !.pos = rd.pos + rcount]
            /\ returned' = returned \o Slice(rd, rcount)
            /\ rres' = [kind |-> "ok", slice |-> Slice(rd, rcount)]
            /\ rpc' = "idle"
    /\ UNCHANGED <<rcount, sock, rmoved>>

\* a reader that never moves the unread bytes back
MustCompact_never(r, count) == FALSE

\* if count + self.available + self.pos > PACKET_SIZE
MustCompact(r, count) == count + r.available + r.pos > PACKET_SIZE

\* the loop needs more bytes: compacts when the request would pass the
\* ceiling, then reads from the socket, which delivers n bytes (0 at the
\* end of the stream, or when the destination is empty)
ReadBytesFill(n) ==
    /\ ReaderFrame
    /\ rpc = "loop"
    /\ rd.available < rcount
    /\ LET compact == MustCompact(rd, rcount)
           r1 == IF compact THEN compact_buffer(rd) ELSE rd
           space == BufSize - (r1.pos + r1.available)
       IN IF space < 0
          THEN /\ n = 0
               /\ rpc' = "panic"
               /\ UNCHANGED <<rd, sock, rres, rmoved>>
          ELSE /\ n <= space
               /\ sock + n <= StreamLen + 1
               /\ rmoved' = (rmoved \/ (compact /\ rd.available > 0 /\ rd.pos > 0))
               /\ IF n = 0
                  THEN /\ rd' = r1
                       /\ rres' = [kind |-> "eof", slice |-> <<>>]
                       /\ rpc' = "failed"
                       /\ sock' = sock
                  ELSE /\ rd' = [ReadInto(r1, sock, n) EXCEPT !.available = r1.available + n]
                       /\ sock' = sock + n
                       /\ UNCHANGED <<rres, rpc>>
    /\ UNCHANGED <<rcount, returned>>

\* connect_offline switches decryption on between two reads
EnableDecryption ==
    /\ ReaderFrame
    /\ rpc = "idle"
    /\ ~rd.decrypt_enable
    /\ rd' = [rd EXCEPT !.decrypt_enable = TRUE]
    /\ UNCHANGED <<rpc, rcount, sock, returned, rres, rmoved>>

NextReader ==
    \/ \E count \in 0 .. MaxRequest : ReadBytesCall(count)
    \/ ReadBytesReturn
    \/ \E n \in 0 .. BufSize : ReadBytesFill(n)
    \/ EnableDecryption

(***************************************************************************)
(* Connection::send: the loop that writes raw_packet to the socket.        *)
(***************************************************************************)
SEND_TRIES == 5

InitSend ==
    /\ spc = "idle"
    /\ raw_len = 0
    /\ bytes_sent = 0
    /\ tries = 0
    /\ sres = "none"

\* while bytes_sent != raw_packet.len() || tries < 5
SendLoopsAgain(sent, len, t) == sent # len \/ t < SEND_TRIES

\* the value returned once the loop is left
SendResult(t) == IF t > SEND_TRIES THEN "err_budget" ELSE "ok"

\* send is called with a packet of len bytes
SendStart(len) ==
    /\ SendFrame
    /\ spc \in {"idle", "done"}
    /\ raw_len' = len
    /\ bytes_sent' = 0
    /\ tries' = 0
    /\ IF SendLoopsAgain(0, len, 0)
       THEN spc' = "loop" /\ sres' = "none"
       ELSE spc' = "done" /\ sres' = SendResult(0)

\* one turn of the loop: the socket accepts n of the bytes left
SendWrite(n) ==
    /\ SendFrame
    /\ spc = "loop"
    /\ n <= raw_len - bytes_sent
    /\ tries < TriesCap
    /\ LET sent1 == bytes_sent + n
           tries1 == IF sent1 = bytes_sent THEN tries + 1 ELSE 0
       IN /\ bytes_sent' = sent1
          /\ tries' = tries1
          /\ IF SendLoopsAgain(sent1, raw_len, tries1)
             THEN spc' = "loop" /\ sres' = "none"
             ELSE spc' = "done" /\ sres' = SendResult(tries1)
    /\ UNCHANGED raw_len

\* the write fails: the error is passed on by `?`
SendWriteError ==
    /\ SendFrame
    /\ spc = "loop"
    /\ spc' = "done"
    /\ sres' = "err_io"
    /\ UNCHANGED <<raw_len, bytes_sent, tries>>

NextSend ==
    \/ \E len \in 1 .. MaxPacketLen : SendStart(len)
    \/ \E n \in 0 .. MaxPacketLen : SendWrite(n)
    \/ SendWriteError

(***************************************************************************)
(* Connection::connect_offline.  A send either writes the whole packet or  *)
(* returns an error; the packets the server answers with are inputs.       *)
(***************************************************************************)
ConnNew ==
    [ encryption |-> FALSE,
      encrypter |-> FALSE,
      decrypt_enable |-> FALSE,
      decrypter |-> FALSE,
      sender_loop |-> FALSE ]

\* packets the server may answer with during the handshake; empty tells
\* whether shared_secret and verify_token both have length 0
HandshakeReplies ==
    {[kind |-> k, empty |-> FALSE] :
        k \in {"EncryptionKeyRequest", "EncryptionKeyResponse", "Disconnect", "LoginRequest"}}
    \cup {[kind |-> "EncryptionKeyResponse", empty |-> TRUE]}

\* packets the session sends on an established connection
LaterPackets == {"ClientSettings", "PlayerPositionAndLook", "ClientStatuses"}

\* send: the packet goes through the encrypter when encryption is on
Sent(c, w, packet) == Append(w, [packet |-> packet, encrypted |-> c.encryption])

InitConn ==
    /\ conn = ConnNew
    /\ cpc = "start"
    /\ cres = "none"
    /\ wire = <<>>
    /\ replies = <<>>
    /\ decryptAt = <<>>

\* enable_encryption that raises the flag before it sends the response
enable_encryption_flag_first(c, w, ok) ==
    IF c.encryption
    THEN [conn |-> c, wire |-> w, ok |-> TRUE]
    ELSE LET c1 == [c EXCEPT !.decrypter = TRUE, !.encrypter = TRUE, !.encryption = TRUE]
         IN IF ok
            THEN [conn |-> c1, wire |-> Sent(c1, w, "EncryptionKeyResponse"), ok |-> TRUE]
            ELSE [conn |-> c1, wire |-> w, ok |-> FALSE]

\* enable_encryption: keys the decrypter and the encrypter, sends the key
\* response, and raises the encryption flag once the send has returned
enable_encryption(c, w, ok) ==
    IF c.encryption
    THEN [conn |-> c, wire |-> w, ok |-> TRUE]
    ELSE LET c1 == [c EXCEPT !.decrypter = TRUE, !.encrypter = TRUE]
         IN IF ok
            THEN [conn |-> [c1 EXCEPT !.encryption = TRUE],
                  wire |-> Sent(c1, w, "EncryptionKeyResponse"),
                  ok |-> TRUE]
            ELSE [conn |-> c1, wire |-> w, ok |-> FALSE]

\* the first reply read as if any packet would do
FirstReplyAccepted_any(packet) == TRUE

\* if let Packet::EncryptionKeyRequest{..} = read(..)
FirstReplyAccepted(packet) == packet.kind = "EncryptionKeyRequest"

\* if let Packet::EncryptionKeyResponse{..} = read(..)
SecondReplyAccepted(packet) == packet.kind = "EncryptionKeyResponse"

\* the handshake packet is sent
ConnSendHandshake(ok) ==
    /\ ConnFrame
    /\ cpc = "start"
    /\ IF ok
       THEN /\ wire' = Sent(conn, wire, "Handshake")
            /\ cpc' = "read_first"
            /\ cres' = cres
       ELSE /\ wire' = wire
            /\ cpc' = "returned"
            /\ cres' = "err"
    /\ UNCHANGED <<conn, replies, decryptAt>>

\* read() fails to decode a reply: it panics
ConnReadPanics ==
    /\ ConnFrame
    /\ cpc \in {"read_first", "read_second"}
    /\ cpc' = "returned"
    /\ cres' = "panic"
    /\ UNCHANGED <<conn, wire, replies, decryptAt>>

\* the first reply is read; a key request leads into enable_encryption
ConnReadFirst(packet, ok) ==
    /\ ConnFrame
    /\ cpc = "read_first"
    /\ replies' = Append(replies, packet)
    /\ IF FirstReplyAccepted(packet)
       THEN LET r == enable_encryption(conn, wire, ok)
            IN /\ conn' = r.conn
               /\ wire' = r.wire
               /\ IF r.ok
                  THEN cpc' = "read_second" /\ cres' = cres
                  ELSE cpc' = "returned" /\ cres' = "err"
       ELSE /\ ok
            /\ cpc' = "returned"
            /\ cres' = "err"
            /\ UNCHANGED <<conn, wire>>
    /\ UNCHANGED decryptAt

\* the second reply is read; decryption goes on, the status packet is
\* sent, the decode task is spawned and the connection returned
ConnReadSecond(packet, ok) ==
    /\ ConnFrame
    /\ cpc = "read_second"
    /\ replies' = Append(replies, packet)
    /\ IF SecondReplyAccepted(packet)
       THEN /\ decryptAt' = <<Len(replies'), Len(wire)>>
            /\ IF ok
               THEN /\ wire' = Sent(conn, wire, "ClientStatuses")
                    /\ conn' = [conn EXCEPT !.decrypt_enable = TRUE, !.sender_loop = TRUE]
                    /\ cpc' = "established"
                    /\ cres' = "ok"
               ELSE /\ wire' = wire
                    /\ conn' = [conn EXCEPT !.decrypt_enable = TRUE]
                    /\ cpc' = "returned"
                    /\ cres' = "err"
       ELSE /\ ok
            /\ cpc' = "returned"
            /\ cres' = "err"
            /\ UNCHANGED <<conn, wire, decryptAt>>

\* the session sends a packet on the connection it was given
ConnSendLater(packet) ==
    /\ ConnFrame
    /\ cpc = "established"
    /\ Len(wire) < 3 + MaxLaterSends
    /\ wire' = Sent(conn, wire, packet)
    /\ UNCHANGED <<conn, cpc, cres, replies, decryptAt>>

NextConn ==
    \/ \E ok \in BOOLEAN : ConnSendHandshake(ok)
    \/ ConnReadPanics
    \/ \E packet \in HandshakeReplies, ok \in BOOLEAN : ConnReadFirst(packet, ok)
    \/ \E packet \in HandshakeReplies, ok \in BOOLEAN : ConnReadSecond(packet, ok)
    \/ \E packet \in LaterPackets : ConnSendLater(packet)

(***************************************************************************)
(* The decode task of each connection, the bounded queue it fills and the  *)
(* recv of the session that empties it.                                    *)
(***************************************************************************)
\* the identifier bytes a stream may carry: 0x00, 0x12 and 0x15
IdBytes == {0, 18, 21}

\* the packet table: identifier byte to packet, None for a byte not in it
PacketOf(id) ==
    CASE id = 0 -> Some("KeepAlive")
      [] id = 18 -> Some("Animation")
      [] id = 29 -> Some("EntityDestroy")
      [] OTHER -> None

\* tx.send completes only while the channel holds fewer than its capacity
CanSend_unbounded(q) == TRUE

CanSend(q) == Len(q) < QueueCap

\* recv: nothing on an empty queue, else recv_many with the limit
RecvLimit == QueueCap

Min(a, b) == IF a < b THEN a ELSE b

\* a recv that hands the queue over newest first
recv_newest(q) ==
    [taken |-> [k \in 1 .. Len(q) |-> q[Len(q) + 1 - k]], rest |-> <<>>]

recv(q) ==
    IF q = <<>>
    THEN [taken |-> <<>>, rest |-> <<>>]
    ELSE LET n == Min(Len(q), RecvLimit)
         IN [taken |-> SubSeq(q, 1, n), rest |-> SubSeq(q, n + 1, Len(q))]

\* the task after a decode error, were it to read on
AfterDecodeError_resync == "reading"

\* Err(e) => break, and a panic in try_read, both end the task
AfterDecodeError == "ended"

InitNet ==
    /\ sender_loop = [s \in Sessions |-> "reading"]
    /\ held = [s \in Sessions |-> None]
    /\ inbound = [s \in Sessions |-> <<>>]
    /\ decoded = [s \in Sessions |-> <<>>]
    /\ delivered = [s \in Sessions |-> <<>>]
    /\ failed = [s \in Sessions |-> "no"]
    /\ since = [s \in Sessions |-> FALSE]

\* try_read returns a packet: the task goes on to tx.send
DecodeRead(s, id) ==
    /\ NetFrame
    /\ sender_loop[s] = "reading"
    /\ Len(decoded[s]) < MaxDecoded
    /\ PacketOf(id) # None
    /\ held' = [held EXCEPT ![s] = PacketOf(id)]
    /\ decoded' = [decoded EXCEPT ![s] = Append(@, PacketOf(id)[1])]
    /\ sender_loop' = [sender_loop EXCEPT ![s] = "sending"]
    /\ since' = [t \in Sessions |-> since[t] \/ (t # s /\ sender_loop[t] = "ended")]
    /\ UNCHANGED <<inbound, delivered, failed>>

\* try_read panics on an identifier byte that is not in the table
DecodeUnknownId(s, id) ==
    /\ NetFrame
    /\ sender_loop[s] = "reading"
    /\ PacketOf(id) = None
    /\ sender_loop' = [sender_loop EXCEPT ![s] = AfterDecodeError]
    /\ failed' = [failed EXCEPT ![s] = "unknown_id"]
    /\ UNCHANGED <<held, inbound, decoded, delivered, since>>

\* try_read returns the reader's error: the socket read returned 0 bytes
DecodeEndOfStream(s) ==
    /\ NetFrame
    /\ sender_loop[s] = "reading"
    /\ sender_loop' = [sender_loop EXCEPT ![s] = AfterDecodeError]
    /\ failed' = [failed EXCEPT ![s] = "end_of_stream"]
    /\ UNCHANGED <<held, inbound, decoded, delivered, since>>

\* tx.send(packet).await completes, the task loops
DecodeSend(s) ==
    /\ NetFrame
    /\ sender_loop[s] = "sending"
    /\ CanSend(inbound[s])
    /\ inbound' = [inbound EXCEPT ![s] = Append(@, held[s][1])]
    /\ held' = [held EXCEPT ![s] = None]
    /\ sender_loop' = [sender_loop EXCEPT ![s] = "reading"]
    /\ UNCHANGED <<decoded, delivered, failed, since>>

\* the session's tick takes what the queue holds
Recv(s) ==
    /\ NetFrame
    /\ inbound[s] # <<>>
    /\ LET r == recv(inbound[s])
       IN /\ delivered' = [delivered EXCEPT ![s] = @ \o r.taken]
          /\ inbound' = [inbound EXCEPT ![s] = r.rest]
    /\ UNCHANGED <<sender_loop, held, decoded, failed, since>>

NextNet ==
    \/ \E s \in Sessions, id \in IdBytes : DecodeRead(s, id)
    \/ \E s \in Sessions, id \in IdBytes : DecodeUnknownId(s, id)
    \/ \E s \in Sessions : DecodeEndOfStream(s)
    \/ \E s \in Sessions : DecodeSend(s)
    \/ \E s \in Sessions : Recv(s)

(***************************************************************************)
(* The sessions with their tasks.  Each Player sits behind a RwLock; its   *)
(* position-update task and the game loop both take it.  The decode task   *)
(* fills Connection.inbound, Player::tick empties it.  Orphan resolution   *)
(* is in Spec and is left out here.                                        *)
(***************************************************************************)
\* the packets a server sends here: the position it forces is 1
SessPackets == {"PlayerPositionAndLook", "Disconnect", "KeepAlive"}

PlayerNew == [stop |-> FALSE, pos_update |-> FALSE, pos |-> 0, pos_update_loop |-> "running"]

InitSession ==
    /\ plr = [s \in Sessions |-> PlayerNew]
    /\ lock = [s \in Sessions |-> "free"]
    /\ ppc = [s \in Sessions |-> "interval"]
    /\ dpc = [s \in Sessions |-> "reading"]
    /\ dheld = [s \in Sessions |-> None]
    /\ rxq = [s \in Sessions |-> <<>>]
    /\ streamed = [s \in Sessions |-> 0]
    /\ gpc = "idle"
    /\ gcur = 0
    /\ batch = <<>>
    /\ handled = [s \in Sessions |-> 0]
    /\ after = [s \in Sessions |-> 0]
    /\ endAge = [s \in Sessions |-> 0]
    /\ prevPos = [s \in Sessions |-> 0]
    /\ fatal = {}

\* ---- the decode task (net.rs 139-154)

\* the packets decoded so far, all sessions together
Streamed == streamed[0] + streamed[1]

\* try_read returns a packet
SessDecode(s, packet) ==
    /\ SessFrame
    /\ dpc[s] = "reading"
    /\ Streamed < MaxStream
    /\ dheld' = [dheld EXCEPT ![s] = Some(packet)]
    /\ streamed' = [streamed EXCEPT ![s] = @ + 1]
    /\ dpc' = [dpc EXCEPT ![s] = "sending"]
    /\ UNCHANGED <<plr, lock, ppc, rxq, gpc, gcur, batch, handled, after, endAge, prevPos, fatal>>

\* try_read fails (end of stream, unknown identifier): the task ends
SessDecodeFails(s) ==
    /\ SessFrame
    /\ dpc[s] = "reading"
    /\ dpc' = [dpc EXCEPT ![s] = AfterDecodeError]
    /\ endAge' = [endAge EXCEPT ![s] = 1]
    /\ UNCHANGED <<plr, lock, ppc, dheld, rxq, streamed, gpc, gcur, batch, handled, after, prevPos, fatal>>

\* tx.send(packet).await completes
SessDecodeSend(s) ==
    /\ SessFrame
    /\ dpc[s] = "sending"
    /\ CanSend(rxq[s])
    /\ rxq' = [rxq EXCEPT ![s] = Append(@, dheld[s][1])]
    /\ dheld' = [dheld EXCEPT ![s] = None]
    /\ dpc' = [dpc EXCEPT ![s] = "reading"]
    /\ UNCHANGED <<plr, lock, ppc, streamed, gpc, gcur, batch, handled, after, endAge, prevPos, fatal>>

\* ---- the position-update task (player.rs 133-156)

\* a period: the read guard is taken; with pos_update the packet is built
\* and send is entered, the guard still held
PosPeriod(s) ==
    /\ SessFrame
    /\ ppc[s] = "interval"
    /\ lock[s] = "free"
    /\ IF plr[s].pos_update
       THEN /\ ppc' = [ppc EXCEPT ![s] = "send"]
            /\ lock' = [lock EXCEPT ![s] = "read"]
       ELSE UNCHANGED <<ppc, lock>>
    /\ prevPos' = [prevPos EXCEPT ![s] = plr[s].pos]
    /\ UNCHANGED <<plr, dpc, dheld, rxq, streamed, gpc, gcur, batch, handled, after, endAge, fatal>>

\* send returns, its result is dropped; the guard goes at the end of the block
PosSendDone(s) ==
    /\ SessFrame
    /\ ppc[s] = "send"
    /\ ppc' = [ppc EXCEPT ![s] = "interval"]
    /\ lock' = [lock EXCEPT ![s] = "free"]
    /\ UNCHANGED <<plr, dpc, dheld, rxq, streamed, gpc, gcur, batch, handled, after, endAge, prevPos, fatal>>

\* ---- the game loop (main.rs 48-66, mod.rs 306-355, player.rs 158-245)

\* if !player.stop, were it left out
Ticked_always(p) == TRUE

\* if !player.stop { player.tick(self).await }
Ticked(p) == ~p.stop

\* recv as if it always awaited recv_many
EntersRecvMany_always(q) == TRUE

\* if !self.inbound.is_empty() { self.inbound.recv_many(..).await }
EntersRecvMany(q) == q # <<>>

\* recv_many returns once the channel holds a message or is closed
RecvManyReturns(s) == rxq[s] # <<>> \/ dpc[s] = "ended"

\* the loop over ctx.players moves on, or the tick ends
LastPlayer == gcur = Len(players)

NextGpc == IF LastPlayer THEN "idle" ELSE "lock"

NextCur == IF LastPlayer THEN 0 ELSE gcur + 1

GameTickStart ==
    /\ SessFrame
    /\ gpc = "idle"
    /\ gpc' = "lock"
    /\ gcur' = 1
    /\ endAge' = [s \in Sessions |-> IF endAge[s] = 1 THEN 2 ELSE endAge[s]]
    /\ UNCHANGED <<plr, lock, ppc, dpc, dheld, rxq, streamed, batch, handled, after, prevPos, fatal>>

\* player.write().await, then the stop test
GameLock ==
    /\ SessFrame
    /\ gpc = "lock"
    /\ LET s == players[gcur]
       IN /\ lock[s] = "free"
          /\ IF Ticked(plr[s])
             THEN /\ lock' = [lock EXCEPT ![s] = "write"]
                  /\ gpc' = "recv"
                  /\ UNCHANGED <<gcur, after>>
             ELSE /\ after' = [after EXCEPT ![s] = IF @ = 1 THEN 2 ELSE @]
                  /\ gpc' = NextGpc
                  /\ gcur' = NextCur
                  /\ UNCHANGED lock
    /\ UNCHANGED <<plr, ppc, dpc, dheld, rxq, streamed, batch, handled, endAge, prevPos, fatal>>

\* Player::tick: connection.recv(&mut inbound_buffer)
GameRecv ==
    /\ SessFrame
    /\ gpc = "recv"
    /\ LET s == players[gcur]
       IN /\ EntersRecvMany(rxq[s]) => RecvManyReturns(s)
          /\ batch' = recv(rxq[s]).taken
          /\ rxq' = [rxq EXCEPT ![s] = recv(rxq[s]).rest]
    /\ gpc' = "batch"
    /\ UNCHANGED <<plr, lock, ppc, dpc, dheld, streamed, gcur, handled, after, endAge, prevPos, fatal>>

\* Player::tick hands the next packet of the batch to handle_packet
GameHandle ==
    /\ SessFrame
    /\ gpc = "batch"
    /\ batch # <<>>
    /\ LET s == players[gcur]
           packet == Head(batch)
       IN /\ handled' = [handled EXCEPT ![s] = @ + 1]
          /\ CASE packet = "Disconnect" ->
                    /\ plr' = [plr EXCEPT ![s].stop = TRUE, ![s].pos_update_loop = "aborted"]
                    /\ ppc' = [ppc EXCEPT ![s] = "cancelled"]
                    /\ after' = [after EXCEPT ![s] = 1]
                    /\ lock' = [lock EXCEPT ![s] = "free"]
                    /\ batch' = <<>>
                    /\ gpc' = NextGpc
                    /\ gcur' = NextCur
                 [] packet = "PlayerPositionAndLook" ->
                    /\ plr' = [plr EXCEPT ![s].pos_update = TRUE, ![s].pos = 1]
                    /\ batch' = Tail(batch)
                    /\ gpc' = "send"
                    /\ UNCHANGED <<ppc, after, lock, gcur>>
               [] OTHER ->
                    /\ batch' = Tail(batch)
                    /\ UNCHANGED <<plr, ppc, after, lock, gpc, gcur>>
    /\ UNCHANGED <<dpc, dheld, rxq, streamed, endAge, prevPos, fatal>>

\* the send of handle_packet returns; unwrap panics on Err
GameSendDone(ok) ==
    /\ SessFrame
    /\ gpc = "send"
    /\ LET s == players[gcur]
       IN IF ok
          THEN /\ gpc' = "batch"
               /\ UNCHANGED <<lock, fatal>>
          ELSE /\ gpc' = "panicked"
               /\ lock' = [lock EXCEPT ![s] = "free"]
               /\ fatal' = fatal \cup {s}
    /\ UNCHANGED <<plr, ppc, dpc, dheld, rxq, streamed, gcur, batch, handled, after, endAge, prevPos>>

\* the batch is done: Player::tick returns false, the guard is dropped
GameTickDone ==
    /\ SessFrame
    /\ gpc = "batch"
    /\ batch = <<>>
    /\ lock' = [lock EXCEPT ![players[gcur]] = "free"]
    /\ gpc' = NextGpc
    /\ gcur' = NextCur
    /\ UNCHANGED <<plr, ppc, dpc, dheld, rxq, streamed, batch, handled, after, endAge, prevPos, fatal>>

NextSession ==
    \/ \E s \in Sessions, packet \in SessPackets : SessDecode(s, packet)
    \/ \E s \in Sessions : SessDecodeFails(s)
    \/ \E s \in Sessions : SessDecodeSend(s)
    \/ \E s \in Sessions : PosPeriod(s)
    \/ \E s \in Sessions : PosSendDone(s)
    \/ GameTickStart
    \/ GameLock
    \/ GameRecv
    \/ GameHandle
    \/ \E ok \in BOOLEAN : GameSendDone(ok)
    \/ GameTickDone

(***************************************************************************)
(* Packets on the wire: write_field and read_field (packets.rs), with the  *)
(* readers of BufferedReader.  A byte is a number in 0 .. 255; a String    *)
(* is the sequence of its code points (below 0xD800, one UTF-16 unit       *)
(* each); NbtData is its bytes; a Slot is a record with its kind.          *)
(***************************************************************************)
\* to_be_bytes of a k-byte integer, two's complement
to_be_bytes(n, k) ==
    IF k = 1 THEN <<n % 256>>
    ELSE IF k = 2 THEN <<(n % 65536) \div 256, n % 256>>
    ELSE LET hi == (n \div 65536) % 65536
             lo == n % 65536
         IN <<hi \div 256, hi % 256, lo \div 256, lo % 256>>

\* the unsigned number of one or two bytes as the signed one of the same bits
AsSigned(u, half) == IF u >= half THEN u - 2 * half ELSE u

\* from_be_bytes of u8, i8, u16, i16 and i32
from_be_bytes(b, signed) ==
    IF Len(b) = 1 THEN (IF signed THEN AsSigned(b[1], 128) ELSE b[1])
    ELSE IF Len(b) = 2
    THEN (IF signed THEN AsSigned(b[1] * 256 + b[2], 32768) ELSE b[1] * 256 + b[2])
    ELSE AsSigned(b[1] * 256 + b[2], 32768) * 65536 + b[3] * 256 + b[4]

\* str::len: the length in bytes of the UTF-8 form
Utf8Len(c) == IF c < 128 THEN 1 ELSE IF c < 2048 THEN 2 ELSE 3

RECURSIVE StrLen(_)
StrLen(str) == IF str = <<>> THEN 0 ELSE Utf8Len(Head(str)) + StrLen(Tail(str))

RECURSIVE encode_utf16(_)
encode_utf16(str) ==
    IF str = <<>> THEN <<>> ELSE to_be_bytes(Head(str), 2) \o encode_utf16(Tail(str))

IntSize(type) ==
    CASE type \in {"u8", "i8"} -> 1
      [] type \in {"u16", "i16"} -> 2
      [] type = "i32" -> 4

IsSigned(type) == type \in {"i8", "i16", "i32"}

\* write_field!(vec, field, Bytes)
write_Bytes(b) == to_be_bytes(Len(b), 2) \o b

\* write_field!(vec, field, NbtData)
write_NbtData(nbt) == to_be_bytes(Len(nbt.bytes), 4) \o write_Bytes(nbt.bytes)

\* write_field!(vec, field, Slot)
write_Slot(slot) ==
    CASE slot.kind = "Empty" -> to_be_bytes(0 - 1, 2)
      [] slot.kind = "Item" ->
            to_be_bytes(slot.id, 2) \o to_be_bytes(slot.count, 1) \o to_be_bytes(slot.damage, 2)
      [] slot.kind = "ItemNbt" ->
            to_be_bytes(slot.id, 2) \o to_be_bytes(slot.count, 1) \o to_be_bytes(slot.damage, 2)
                \o write_NbtData(slot.nbt)

write_field(type, v) ==
    CASE type = "String" -> to_be_bytes(StrLen(v), 2) \o encode_utf16(v)
      [] type = "Bytes" -> write_Bytes(v)
      [] type = "bool" -> IF v THEN <<1>> ELSE <<0>>
      [] type = "NbtData" -> write_NbtData(v)
      [] type = "Slot" -> write_Slot(v)
      [] OTHER -> to_be_bytes(v, IntSize(type))

\* ---- reading: b is the stream, p the number of bytes consumed so far;
\* the result is [ok, v, pos], ok = FALSE for an Err or a panic

ReadFails(p) == [ok |-> FALSE, v |-> 0, pos |-> p]

\* BufferedReader::read_bytes on a stream that ends after b
read_bytes(b, p, count) ==
    IF count >= 0 /\ p + count <= Len(b)
    THEN [ok |-> TRUE, v |-> SubSeq(b, p + 1, p + count), pos |-> p + count]
    ELSE ReadFails(p)

\* read_ubyte, read_byte, read_ushort, read_short, read_int
read_int(type, b, p) ==
    LET r == read_bytes(b, p, IntSize(type))
    IN IF ~r.ok THEN r
       ELSE [r EXCEPT !.v = from_be_bytes(r.v, IsSigned(type))]

read_bool(b, p) ==
    LET r == read_bytes(b, p, 1)
    IN IF ~r.ok THEN r ELSE [r EXCEPT !.v = (r.v[1] = 1)]

read_string(b, p) ==
    LET l == read_int("u16", b, p)
    IN IF ~l.ok THEN l
       ELSE IF l.v = 0 THEN [l EXCEPT !.v = <<>>]
       ELSE LET data == read_bytes(b, l.pos, l.v * 2)
            IN IF ~data.ok THEN ReadFails(l.pos)
               ELSE [data EXCEPT !.v = [i \in 1 .. l.v |->
                                          from_be_bytes(SubSeq(data.v, 2 * i - 1, 2 * i), FALSE)]]

\* read_field!(reader, Bytes)
read_Bytes(b, p) ==
    LET l == read_int("u16", b, p)
    IN IF ~l.ok THEN l ELSE read_bytes(b, l.pos, l.v)

\* read_nbt_data: None for the length -1
read_nbt_data(b, p) ==
    LET l == read_int("i16", b, p)
    IN IF ~l.ok THEN l
       ELSE IF l.v = 0 - 1 THEN [l EXCEPT !.v = None]
       ELSE LET data == read_bytes(b, l.pos, l.v)
            IN IF ~data.ok THEN ReadFails(l.pos)
               ELSE [data EXCEPT !.v = Some([bytes |-> data.v])]

read_slot(b, p) ==
    LET id == read_int("i16", b, p)
    IN IF ~id.ok THEN id
       ELSE IF id.v = 0 - 1 THEN [id EXCEPT !.v = [kind |-> "Empty"]]
       ELSE LET count == read_int("i8", b, id.pos)
            IN IF ~count.ok THEN count
               ELSE LET damage == read_int("i16", b, count.pos)
                    IN IF ~damage.ok THEN damage
                       ELSE LET nbt == read_nbt_data(b, damage.pos)
                            IN IF ~nbt.ok THEN nbt
                               ELSE IF nbt.v # None
                               THEN [nbt EXCEPT !.v = [kind |-> "ItemNbt", id |-> id.v,
                                                       count |-> count.v, damage |-> damage.v,
                                                       nbt |-> nbt.v[1]]]
                               ELSE [nbt EXCEPT !.v = [kind |-> "Item", id |-> id.v,
                                                       count |-> count.v, damage |-> damage.v]]

read_field(type, b, p) ==
    CASE type = "String" -> read_string(b, p)
      [] type = "Bytes" -> read_Bytes(b, p)
      [] type = "bool" -> read_bool(b, p)
      [] type = "NbtData" ->
            LET nbt == read_nbt_data(b, p)
            IN IF ~nbt.ok THEN nbt
               ELSE IF nbt.v = None THEN ReadFails(nbt.pos)
               ELSE [nbt EXCEPT !.v = nbt.v[1]]
      [] type = "Slot" -> read_slot(b, p)
      [] OTHER -> read_int(type, b, p)

\* the field types of the packets of the table used here: ChatMessage,
\* ConfirmTransaction, CreativeInventoryAction, ItemData, UpdateTileEntity
FieldsOf(id) ==
    CASE id = 3 -> <<"String">>
      [] id = 106 -> <<"u8", "i16", "bool">>
      [] id = 107 -> <<"u16", "Slot">>
      [] id = 131 -> <<"i16", "i16", "Bytes">>
      [] id = 132 -> <<"i32", "u16", "i32", "u8", "NbtData">>
      [] OTHER -> <<>>

RECURSIVE WriteFields(_, _)
WriteFields(types, values) ==
    IF types = <<>> THEN <<>>
    ELSE write_field(Head(types), Head(values)) \o WriteFields(Tail(types), Tail(values))

\* write: the identifier, then the fields in order
write(packet) == <<packet.id>> \o WriteFields(FieldsOf(packet.id), packet.fields)

RECURSIVE ReadFields(_, _, _, _)
ReadFields(types, b, p, acc) ==
    IF types = <<>> THEN [ok |-> TRUE, v |-> acc, pos |-> p]
    ELSE LET r == read_field(Head(types), b, p)
         IN IF ~r.ok THEN r
            ELSE ReadFields(Tail(types), b, r.pos, Append(acc, r.v))

\* try_read: the identifier, then the fields of that packet
try_read(b) ==
    LET id == read_int("u8", b, 0)
    IN IF ~id.ok THEN id
       ELSE IF FieldsOf(id.v) = <<>> THEN ReadFails(id.pos)
       ELSE LET r == ReadFields(FieldsOf(id.v), b, id.pos, <<>>)
            IN IF ~r.ok THEN r ELSE [r EXCEPT !.v = [id |-> id.v, fields |-> r.v]]

\* ---- sample packets, written and read back

Strings == {<<>>, <<97>>, <<97, 98>>, <<233>>, <<26085, 97>>}

Blobs == {<<>>, <<7>>, <<1, 255>>}

Slots ==
    { [kind |-> "Empty"],
      [kind |-> "Item", id |-> 1, count |-> 1, damage |-> 0],
      [kind |-> "Item", id |-> 300, count |-> 64, damage |-> 0 - 2],
      [kind |-> "ItemNbt", id |-> 1, count |-> 1, damage |-> 0, nbt |-> [bytes |-> <<10, 0>>]] }

CodecSamples ==
    {[id |-> 3, fields |-> <<str>>] : str \in Strings}
    \cup {[id |-> 106, fields |-> <<w, a, acc>>] : w \in {0, 255}, a \in {0 - 1, 258}, acc \in BOOLEAN}
    \cup {[id |-> 107, fields |-> <<sl, item>>] : sl \in {0, 65535}, item \in Slots}
    \cup {[id |-> 131, fields |-> <<358, i, text>>] : i \in {0 - 1, 258}, text \in Blobs}
    \cup {[id |-> 132, fields |-> <<x, 64, 0 - 70000, 1, [bytes |-> bl]>>] :
            x \in {0 - 1, 258}, bl \in Blobs}

\* what follows the packet on the stream: nothing, or the next bytes
StreamTails == {<<>>, <<255, 255>>}

InitCodec ==
    /\ kpc = "idle"
    /\ kpacket = [id |-> 0, fields |-> <<>>]
    /\ kbytes = <<>>
    /\ kwritten = 0
    /\ kres = ReadFails(0)

CodecPick(packet, tail) ==
    /\ CodecFrame
    /\ kpc \in {"idle", "read"}
    /\ kpc' = "picked"
    /\ kpacket' = packet
    /\ kbytes' = tail
    /\ kwritten' = 0
    /\ kres' = ReadFails(0)

\* write(packet): the bytes go on the stream ahead of what follows
CodecWrite ==
    /\ CodecFrame
    /\ kpc = "picked"
    /\ kpc' = "written"
    /\ kbytes' = write(kpacket) \o kbytes
    /\ kwritten' = Len(write(kpacket))
    /\ UNCHANGED <<kpacket, kres>>

\* try_read on that stream
CodecRead ==
    /\ CodecFrame
    /\ kpc = "written"
    /\ kpc' = "read"
    /\ kres' = try_read(kbytes)
    /\ UNCHANGED <<kpacket, kbytes, kwritten>>

NextCodec ==
    \/ \E packet \in CodecSamples, tail \in StreamTails : CodecPick(packet, tail)
    \/ CodecWrite
    \/ CodecRead

(***************************************************************************)
(* The world (src/src/world.rs)                                            *)
(*                                                                         *)
(* A payload is the decompressed bytes of a chunk packet.  Its bytes all   *)
(* carry one value, so a payload is its length and that value.  A chunk    *)
(* keeps its block array at the indices of Probes, the indices that the    *)
(* positions of TestPos reach, and a column keeps its biome array at the   *)
(* indices of BiomeProbes; an element outside them is never looked at.     *)
(***************************************************************************)
BYTE_CHUNK == 4096

HALFBYTE_CHUNK == 2048

BIOME_LEN == 256

\* the number of sub-chunk slots of a column (for y in 0..16)
COLUMN_CHUNKS == 16

MaxColumns == 2

Block_new == [id |-> 0, metadata |-> 0, light |-> 0, skylit |-> 0]

AIR == [id |-> 0, metadata |-> 0, light |-> 0, skylit |-> 0]

\* x + z*16 + y*16*16
BlockIndex(x, z, y) == x + z * 16 + y * 16 * 16

\* the positions (x, y, z) looked up and updated: below the world, in each
\* sub-chunk the drawn packets carry, at and above the top of a column
TestPos ==
    {<<0, 0 - 1, 0>>, <<0, 0, 0>>, <<15, 17, 1>>, <<0, 255, 0>>,
     <<0, 256, 0>>, <<0, 257, 0>>, <<0 - 1, 17, 0>>, <<0 - 1, 0 - 1, 0>>,
     <<17, 255, 1>>, <<17, 0, 0>>}

Probes == {BlockIndex(p[1] % 16, p[3] % 16, p[2] % 16) : p \in TestPos}

BiomeProbes == {0, BIOME_LEN - 1}

\* mask & (1 << y) != 0
Bit(mask, y) == (mask \div (2 ^ y)) % 2 = 1

\* the low half of a byte at an even index, the high half at an odd one
Nibble(byte, i) == IF i % 2 = 0 THEN byte % 16 ELSE byte \div 16

\* the sub-chunks parse creates, in the order of the column's vector
PresentYs(primary) ==
    SelectSeq([i \in 1..COLUMN_CHUNKS |-> i - 1], LAMBDA y : Bit(primary, y))

SectionsOf(phase, ys, size) ==
    [k \in 1..Len(ys) |-> [phase |-> phase, y |-> ys[k], size |-> size]]

skylight_sections_always(ys, skylight) ==
    SectionsOf("skylit", ys, HALFBYTE_CHUNK)

skylight_sections(ys, skylight) ==
    IF skylight THEN SectionsOf("skylit", ys, HALFBYTE_CHUNK) ELSE <<>>

\* the reads parse makes for one column, in order
Sections(meta, skylight, ground_up) ==
    LET ys == PresentYs(meta.primary)
    IN  SectionsOf("id", ys, BYTE_CHUNK)
        \o SectionsOf("metadata", ys, HALFBYTE_CHUNK)
        \o SectionsOf("light", ys, HALFBYTE_CHUNK)
        \o skylight_sections(ys, skylight)
        \o SectionsOf("add", SelectSeq(ys, LAMBDA y : Bit(meta.add, y)),
                      HALFBYTE_CHUNK)
        \o (IF ground_up
            THEN <<[phase |-> "biome", y |-> 0, size |-> BIOME_LEN]>>
            ELSE <<>>)

\* data_iter.take(size) for each section: what the iterator still had
RECURSIVE take_all(_, _)
take_all(sections, rest) ==
    IF sections = <<>> THEN <<>>
    ELSE LET n == Min(rest, Head(sections).size)
         IN  <<n>> \o take_all(Tail(sections), rest - n)

RECURSIVE SumSizes(_)
SumSizes(sections) ==
    IF sections = <<>> THEN 0
    ELSE Head(sections).size + SumSizes(Tail(sections))

RECURSIVE SumSeq(_)
SumSeq(ns) == IF ns = <<>> THEN 0 ELSE Head(ns) + SumSeq(Tail(ns))

\* how many elements the section of that phase and sub-chunk received
Taken(sections, takes, phase, y) ==
    LET ks == {k \in 1..Len(sections) :
                   sections[k].phase = phase /\ sections[k].y = y}
    IN  IF ks = {} THEN 0 ELSE takes[CHOOSE k \in ks : TRUE]

\* block i of sub-chunk y after the zips of parse
ParsedBlock(sections, takes, byte, y, i) ==
    LET half(phase) ==
            IF i \div 2 < Taken(sections, takes, phase, y)
            THEN Nibble(byte, i) ELSE 0
    IN  [id       |-> (IF i < Taken(sections, takes, "id", y)
                       THEN byte ELSE 0) + half("add"),
         metadata |-> half("metadata"),
         light    |-> half("light"),
         skylit   |-> half("skylit")]

\* the column parse builds from one ChunkMetainfo and what the iterator has
ParsedColumn(meta, skylight, ground_up, byte, rest) ==
    LET sections == Sections(meta, skylight, ground_up)
        takes    == take_all(sections, rest)
    IN  [x      |-> meta.x,
         z      |-> meta.z,
         chunks |-> [k \in 1..COLUMN_CHUNKS |->
                       IF Bit(meta.primary, k - 1)
                       THEN Some([y      |-> k - 1,
                                  blocks |-> [i \in Probes |->
                                      ParsedBlock(sections, takes, byte,
                                                  k - 1, i)]])
                       ELSE None],
         biome  |-> [i \in BiomeProbes |->
                       IF i < Taken(sections, takes, "biome", 0)
                       THEN byte ELSE 0]]

\* the loop of parse over the columns of the packet
RECURSIVE parse_columns(_, _, _, _, _, _, _)
parse_columns(cols, metadata, skylight, ground_up, byte, rest, consumed) ==
    IF metadata = <<>>
    THEN [columns |-> cols, rest |-> rest, consumed |-> consumed]
    ELSE LET meta     == Head(metadata)
             sections == Sections(meta, skylight, ground_up)
             column   == ParsedColumn(meta, skylight, ground_up, byte, rest)
         IN  parse_columns((<<meta.x, meta.z>> :> column) @@ cols,
                           Tail(metadata), skylight, ground_up, byte,
                           rest - SumSeq(take_all(sections, rest)),
                           consumed + SumSizes(sections))

\* World::parse: the columns it inserted, and whether both asserts passed
parse(cols, chunk_data, metadata, skylight, ground_up) ==
    LET data_total == chunk_data.len
        r == parse_columns(cols, metadata, skylight, ground_up,
                           chunk_data.byte, data_total, 0)
    IN  [columns       |-> r.columns,
         data_consumed |-> r.consumed,
         ok            |-> data_total = r.consumed /\ r.rest = 0]

\* World::new
World_new == << >>

\* decompress_to_vec_zlib(&data.compressed).unwrap(): a packet carries the
\* bytes its compressed field inflates to
set_chunk(cols, data) ==
    parse(cols, data.decompressed, <<data.metainfo>>, TRUE,
          data.ground_up_continuous)

set_chunk_bulk(cols, data) ==
    parse(cols, data.decompressed, data.metainfo, data.has_skylight, TRUE)

\* the (primary, add) masks of the columns drawn as input
Masks == {0, 1, 32769} \X {0, 3}

\* the byte every element of a drawn payload carries (0x21)
DataBytes == {33}

\* the column vectors of n columns, the k-th one at chunk position (k-1, 0)
Metainfos(n) ==
    {[k \in 1..n |-> [x |-> k - 1, z |-> 0,
                      primary |-> f[k][1], add |-> f[k][2]]] :
        f \in [1..n -> Masks]}

\* the payload lengths drawn for a column vector: what parse counts for it
\* under each pair of flags, and one byte less and more
Lengths(metadata) ==
    {n \in {parse(World_new, [len |-> 0, byte |-> 0], metadata, s,
                  g).data_consumed + d :
                s \in BOOLEAN, g \in BOOLEAN, d \in {0 - 1, 0, 1}} : n >= 0}

ChunkData(metainfo, ground_up, len, byte) ==
    [kind |-> "ChunkData", ground_up_continuous |-> ground_up,
     metainfo |-> metainfo, decompressed |-> [len |-> len, byte |-> byte]]

ChunkDataBulk(metainfo, has_skylight, len, byte) ==
    [kind |-> "ChunkDataBulk", has_skylight |-> has_skylight,
     metainfo |-> metainfo, decompressed |-> [len |-> len, byte |-> byte]]

(***************************************************************************)
(* SpecParse: a chunk packet is parsed into a fresh world                  *)
(***************************************************************************)
InitParse ==
    /\ chpc = "idle"
    /\ chin = ChunkData([x |-> 0, z |-> 0, primary |-> 0, add |-> 0],
                        FALSE, 0, 0)
    /\ chout = [columns |-> World_new, data_consumed |-> 0, ok |-> TRUE]

\* Packet::ChunkData arrives (player.rs 185, mod.rs 148)
ParsePickChunk(data) ==
    /\ chpc = "idle"
    /\ chpc' = "picked"
    /\ chin' = data
    /\ UNCHANGED chout
    /\ ParseFrame

\* Packet::ChunkDataBulk arrives (player.rs 188, mod.rs 152)
ParsePickBulk(data) ==
    /\ chpc = "idle"
    /\ chpc' = "picked"
    /\ chin' = data
    /\ UNCHANGED chout
    /\ ParseFrame

\* ctx.world.set_chunk(chunk_data)
ParseChunk ==
    /\ chpc = "picked"
    /\ chin.kind = "ChunkData"
    /\ chpc' = "parsed"
    /\ chout' = set_chunk(World_new, chin)
    /\ UNCHANGED chin
    /\ ParseFrame

\* ctx.world.set_chunk_bulk(&column_data)
ParseBulk ==
    /\ chpc = "picked"
    /\ chin.kind = "ChunkDataBulk"
    /\ chpc' = "parsed"
    /\ chout' = set_chunk_bulk(World_new, chin)
    /\ UNCHANGED chin
    /\ ParseFrame

NextParse ==
    \/ \E m \in Metainfos(1), g \in BOOLEAN, b \in DataBytes :
         \E n \in Lengths(m) : ParsePickChunk(ChunkData(m[1], g, n, b))
    \/ \E k \in 1..MaxColumns, s \in BOOLEAN, b \in DataBytes :
         \E m \in Metainfos(k) :
           \E n \in Lengths(m) : ParsePickBulk(ChunkDataBulk(m, s, n, b))
    \/ ParseChunk
    \/ ParseBulk

(***************************************************************************)
(* Lookups and single-block updates                                        *)
(***************************************************************************)
\* what a call gave back: a block, or a panic
Returned(block) == [panic |-> FALSE, block |-> block]

Panicked == [panic |-> TRUE, block |-> AIR]

\* n as usize: a negative i32 lands above every length and index of the
\* program; 2^31 + n stands for 2^64 + n
as_usize(n) == IF n < 0 THEN 2147483647 + n + 1 ELSE n

\* Vec::get / Vec::get_mut on the sub-chunk slots
chunks_get(chunks, i) == IF i < Len(chunks) THEN Some(chunks[i + 1]) ELSE None

\* ChunkColumn::get_block
ChunkColumn_get_block(column, pos) ==
    LET y == as_usize(pos[2])
    IN  IF y > Len(column.chunks) * 16 THEN Returned(AIR)
        ELSE LET x    == pos[1] % 16
                 z    == pos[3] % 16
                 slot == chunks_get(column.chunks, y \div 16)
             IN  IF slot # None /\ slot[1] # None
                 THEN LET i == BlockIndex(x, z, y % 16)
                      IN  IF i < BYTE_CHUNK
                          THEN Returned(slot[1][1].blocks[i])
                          ELSE Panicked
                 ELSE Returned(AIR)

contains_key_any(cols, key) == TRUE

\* HashMap::contains_key
contains_key(cols, key) == key \in DOMAIN cols

\* HashMap::get / get_mut
columns_get(cols, key) == IF key \in DOMAIN cols THEN Some(cols[key]) ELSE None

\* World::get_block
get_block(cols, pos) ==
    IF pos[2] < 0 THEN Returned(AIR)
    ELSE LET chunk_pos == <<pos[1] \div 16, pos[3] \div 16>>
         IN  IF ~contains_key(cols, chunk_pos) THEN Returned(AIR)
             ELSE LET chunk == columns_get(cols, chunk_pos)
                  IN  IF chunk = None THEN Panicked
                      ELSE ChunkColumn_get_block(chunk[1], pos)

\* Chunk::empty
Chunk_empty(y) == [y |-> y, blocks |-> [i \in Probes |-> AIR]]

\* ChunkColumn::new
ChunkColumn_new(x, z) ==
    [x |-> x, z |-> z,
     chunks |-> [k \in 1..COLUMN_CHUNKS |-> None],
     biome |-> [i \in BiomeProbes |-> 0]]

\* chunk.blocks[i] = block
StoreBlock(chunk, i, block) ==
    [chunk EXCEPT !.blocks = [j \in Probes |-> IF j = i THEN block ELSE @[j]]]

\* ChunkColumn::set_block: the column after the call, or a panic
ChunkColumn_set_block(column, pos, block) ==
    LET y == as_usize(pos[2])
    IN  IF y > Len(column.chunks) * 16
        THEN [panic |-> FALSE, column |-> column]
        ELSE LET x       == pos[1] % 16
                 z       == pos[3] % 16
                 chunk_y == y \div 16
                 i       == BlockIndex(x, z, (pos[2] % 16) % 16)
                 slot    == chunks_get(column.chunks, chunk_y)
             IN  IF i >= BYTE_CHUNK
                 THEN [panic |-> TRUE, column |-> column]
                 ELSE IF slot # None /\ slot[1] # None
                 THEN [panic |-> FALSE,
                       column |-> [column EXCEPT !.chunks[chunk_y + 1] =
                                       Some(StoreBlock(@[1], i, block))]]
                 ELSE IF chunk_y >= Len(column.chunks)
                 THEN [panic |-> TRUE, column |-> column]
                 ELSE [panic |-> FALSE,
                       column |-> [column EXCEPT !.chunks[chunk_y + 1] =
                           Some(StoreBlock(Chunk_empty(chunk_y), i, block))]]

\* a division that truncates toward zero
div_floor_truncating(a, b) == IF a < 0 THEN 0 - ((0 - a) \div b) ELSE a \div b

\* i32::div_floor
div_floor(a, b) == a \div b

\* World::set_block
set_block(cols, x, z, y, block_type, block_meta) ==
    LET chunk_x == div_floor(x, 16)
        chunk_z == div_floor(z, 16)
        key     == <<chunk_x, chunk_z>>
        cols1   == IF ~contains_key(cols, key)
                   THEN (key :> ChunkColumn_new(chunk_x, chunk_z)) @@ cols
                   ELSE cols
        block   == [Block_new EXCEPT !.id = block_type, !.metadata = block_meta]
        r       == ChunkColumn_set_block(cols1[key], <<x, y, z>>, block)
    IN  [panic |-> r.panic, columns |-> (key :> r.column) @@ cols1]

\* the loop of set_block_multiple from record i on
RECURSIVE set_records(_, _, _)
set_records(column, data, i) ==
    IF i >= data.record_count THEN [panic |-> FALSE, column |-> column]
    ELSE IF i * 4 + 3 >= Len(data.bytes)
    THEN [panic |-> TRUE, column |-> column]
    ELSE LET a     == data.bytes[i * 4 + 1]
             b     == data.bytes[i * 4 + 2]
             c     == data.bytes[i * 4 + 3]
             d     == data.bytes[i * 4 + 4]
             x     == a \div 16
             z     == a % 16
             y     == b
             id    == c * 16 + d \div 16
             meta  == d % 16
             block == [Block_new EXCEPT !.id = id, !.metadata = meta]
             r     == ChunkColumn_set_block(column,
                          <<x + data.x * 16, y, z + data.z * 16>>, block)
         IN  IF r.panic THEN r ELSE set_records(r.column, data, i + 1)

\* World::set_block_multiple
set_block_multiple(cols, data) ==
    LET key    == <<data.x, data.z>>
        column == columns_get(cols, key)
    IN  IF column = None THEN [panic |-> TRUE, columns |-> cols]
        ELSE LET r == set_records(column[1], data, 0)
             IN  [panic |-> r.panic, columns |-> (key :> r.column) @@ cols]

(***************************************************************************)
(* SpecWorld: the packets that update the world, and the lookups           *)
(***************************************************************************)
\* the (primary, add) masks of the columns that reach the world
WorldMasks == {<<1, 3>>, <<32769, 0>>}

\* chunk packets of one column at (0, 0), some of them one byte short
WorldChunkDatas ==
    {ChunkData([x |-> 0, z |-> 0, primary |-> m[1], add |-> m[2]], TRUE,
               parse(World_new, [len |-> 0, byte |-> 0],
                     <<[x |-> 0, z |-> 0, primary |-> m[1], add |-> m[2]]>>,
                     TRUE, TRUE).data_consumed - d, b) :
        m \in {<<1, 3>>}, d \in {0, 1}, b \in DataBytes}

\* bulk packets of well-formed length, without skylight
WorldChunkDataBulks ==
    UNION {{ChunkDataBulk(m, s,
                parse(World_new, [len |-> 0, byte |-> 0], m, s,
                      TRUE).data_consumed, b) :
              m \in {mm \in Metainfos(k) :
                       \A j \in 1..k : <<mm[j].primary, mm[j].add>> \in WorldMasks},
              s \in {FALSE}, b \in DataBytes} : k \in 1..MaxColumns}

\* the block changes drawn: (x, y, z, block_type, block_meta)
WorldBlockChanges == {<<0 - 1, 17, 0, 1, 0>>, <<17, 255, 1, 2, 3>>}

\* the multi-block changes drawn: records (15,1,17) -> 2:1 and (0,0,0) -> 1:0;
\* the last one announces a record its bytes do not hold
WorldMultiBlockChanges ==
    {[x |-> x, z |-> 0, record_count |-> n, bytes |-> <<241, 17, 0, 33>> \o tail] :
        x \in {0 - 1, 0}, n \in {1}, tail \in {<<>>}}
    \cup {[x |-> 0, z |-> 0, record_count |-> 2,
           bytes |-> <<241, 17, 0, 33, 0, 0, 0, 16>>],
          [x |-> 0, z |-> 0, record_count |-> 2, bytes |-> <<0, 0, 0, 16>>]}

InitWorld ==
    /\ columns = World_new
    /\ wpc = "running"
    /\ wgot = None

\* Packet::ChunkData in handle_packet
WorldChunkData(data) ==
    /\ wpc = "running"
    /\ LET r == set_chunk(columns, data)
       IN  /\ columns' = r.columns
           /\ wpc' = IF r.ok THEN "running" ELSE "panicked"
    /\ wgot' = None
    /\ WorldFrame

\* Packet::ChunkDataBulk in handle_packet
WorldChunkDataBulk(data) ==
    /\ wpc = "running"
    /\ LET r == set_chunk_bulk(columns, data)
       IN  /\ columns' = r.columns
           /\ wpc' = IF r.ok THEN "running" ELSE "panicked"
    /\ wgot' = None
    /\ WorldFrame

\* Packet::BlockChange in handle_packet
WorldBlockChange(x, y, z, block_type, block_meta) ==
    /\ wpc = "running"
    /\ LET r == set_block(columns, x, z, y, block_type, block_meta)
       IN  /\ columns' = r.columns
           /\ wpc' = IF r.panic THEN "panicked" ELSE "running"
    /\ wgot' = None
    /\ WorldFrame

\* Packet::MultiBlockChange in handle_packet
WorldMultiBlockChange(data) ==
    /\ wpc = "running"
    /\ LET r == set_block_multiple(columns, data)
       IN  /\ columns' = r.columns
           /\ wpc' = IF r.panic THEN "panicked" ELSE "running"
    /\ wgot' = None
    /\ WorldFrame

\* a lookup by the renderer or the camera; it goes on after the game task
\* panicked, on what the failed update left
WorldGetBlock(pos) ==
    /\ wgot' = Some([pos |-> pos, res |-> get_block(columns, pos)])
    /\ UNCHANGED <<columns, wpc>>
    /\ WorldFrame

NextWorld ==
    \/ \E data \in WorldChunkDatas : WorldChunkData(data)
    \/ \E data \in WorldChunkDataBulks : WorldChunkDataBulk(data)
    \/ \E c \in WorldBlockChanges : WorldBlockChange(c[1], c[2], c[3], c[4], c[5])
    \/ \E data \in WorldMultiBlockChanges : WorldMultiBlockChange(data)
    \/ \E pos \in TestPos : WorldGetBlock(pos)

(***************************************************************************)
(* SpecWire: the tasks that call Connection::send on the connection of one *)
(* session.  The position-update task sends under a read guard of the      *)
(* Player (player.rs 138-152); the game task sends from Player::tick under *)
(* the write guard (mod.rs 320-325) and from the input step under a read   *)
(* guard (mod.rs 666-670).  A byte on the wire is the record of the call   *)
(* it belongs to, its index in raw_packet and its position in the cipher   *)
(* stream (0 when encryption is off).  The socket accepts every write      *)
(* here; a write that fails is in SpecSend.                                *)
(***************************************************************************)
WireTasks == {"position", "game"}

\* the steps of the game task that send: Player::tick and handle_input_world
WireKinds(t) == IF t = "position" THEN {"position"} ELSE {"tick", "input"}

WireIdle == [pc |-> "idle", kind |-> "none", raw |-> <<>>, bytes_sent |-> 0, tries |-> 0]

\* the guard of the Player a send of that kind runs under
GuardOf(kind) == IF kind = "tick" THEN "write" ELSE "read"

\* RwLock: a write guard shuts out every other guard, a read guard only
\* a write guard
GuardAllows(tasks, t, kind) ==
    \A u \in WireTasks \ {t} :
        tasks[u].pc = "idle"
        \/ (GuardOf(kind) = "read" /\ GuardOf(tasks[u].kind) = "read")

\* raw_packet of call number no: write(packet), run through the encrypter
\* when encryption is on
raw_packet(enc, no, cipher) ==
    [k \in 1 .. WirePacketLen |->
        [no |-> no, k |-> k, c |-> IF enc = "encrypted" THEN cipher + k ELSE 0]]

InitWire ==
    /\ xenc = "connecting"
    /\ xtask = [t \in WireTasks |-> WireIdle]
    /\ xcipher = 0
    /\ xwire = <<>>
    /\ xsends = 0

\* connect_offline returns the connection, with or without encryption
WireConnected(enc) ==
    /\ WireFrame
    /\ xenc = "connecting"
    /\ xenc' = enc
    /\ UNCHANGED <<xtask, xcipher, xwire, xsends>>

\* a task takes its guard and calls send: raw_packet is built, the
\* encrypter's lock being held for the update only
WireSendStart(t, kind) ==
    /\ WireFrame
    /\ xenc # "connecting"
    /\ xtask[t].pc = "idle"
    /\ xsends < MaxWireSends
    /\ GuardAllows(xtask, t, kind)
    /\ xsends' = xsends + 1
    /\ xtask' = [xtask EXCEPT ![t] =
                    [pc |-> "loop", kind |-> kind,
                     raw |-> raw_packet(xenc, xsends + 1, xcipher),
                     bytes_sent |-> 0, tries |-> 0]]
    /\ xcipher' = IF xenc = "encrypted" THEN xcipher + WirePacketLen ELSE xcipher
    /\ UNCHANGED <<xenc, xwire>>

\* one turn of the loop of send: the lock of the write half is taken, the
\* socket accepts n of the bytes left, the lock is released
WireWrite(t, n) ==
    /\ WireFrame
    /\ xtask[t].pc = "loop"
    /\ LET me == xtask[t]
           sent1 == me.bytes_sent + n
           tries1 == IF n = 0 THEN me.tries + 1 ELSE 0
       IN  /\ n <= Len(me.raw) - me.bytes_sent
           /\ me.tries < TriesCap
           /\ xwire' = xwire \o SubSeq(me.raw, me.bytes_sent + 1, sent1)
           /\ xtask' = [xtask EXCEPT ![t] =
                           IF SendLoopsAgain(sent1, Len(me.raw), tries1)
                           THEN [me EXCEPT !.bytes_sent = sent1, !.tries = tries1]
                           ELSE WireIdle]
    /\ UNCHANGED <<xenc, xcipher, xsends>>

NextWire ==
    \/ \E enc \in {"plain", "encrypted"} : WireConnected(enc)
    \/ \E t \in WireTasks : \E kind \in WireKinds(t) : WireSendStart(t, kind)
    \/ \E t \in WireTasks, n \in 0 .. WirePacketLen : WireWrite(t, n)

(***************************************************************************)
(* The specifications                                                      *)
(***************************************************************************)
Init == InitReg /\ InitReader /\ InitSend /\ InitConn /\ InitNet /\ InitSession /\ InitCodec
        /\ InitParse /\ InitWorld /\ InitWire

Next == NextReg

Spec == Init /\ [][Next]_vars

SpecSpawn == Init /\ [][NextSpawn]_vars

SpecReader == Init /\ [][NextReader]_vars

SpecSend == Init /\ [][NextSend]_vars

SpecConn == Init /\ [][NextConn]_vars

SpecNet == Init /\ [][NextNet]_vars

SpecSession == Init /\ [][NextSession]_vars

SpecCodec == Init /\ [][NextCodec]_vars

SpecParse == Init /\ [][NextParse]_vars

SpecWorld == Init /\ [][NextWorld]_vars

SpecWire == Init /\ [][NextWire]_vars

(***************************************************************************)
(* Claims on the entity registry (Spec)                                    *)
(***************************************************************************)
EntityIds(m) == {m.entities[i].id : i \in 1 .. Len(m.entities)}
Children(e) == {e.children[i] : i \in 1 .. Len(e.children)}
MoveOps == {"teleport", "relative_move", "look_relative_move"}

\* the step handles one packet
PacketStep == events' = events + 1

(* C1: a move, an attach/detach or a destroy naming only e, coming from a
   session that is not the recorded owner of e, leaves the whole registry
   as it was. *)
C1_NonOwnerEventIsNoOp ==
    [][ ( /\ PacketStep
          /\ last'.op \in MoveOps \cup {"attach", "detach", "destroy"}
          /\ last'.op = "destroy" => last'.arg = <<last'.eid>>
          /\ last'.owner # None
          /\ last'.owner # Some(last'.src) )
        => em' = em ]_vars

C1_Witness ==
    /\ last.op = "attach"
    /\ last.owner # None
    /\ last.owner # Some(last.src)
    /\ \E i \in 1 .. Len(em.entities) :
          em.entities[i].id = last.eid /\ em.entities[i].parent = None

(* C2: for all tracked entities A and B, B.parent = Some(A.id) exactly
   when A.children contains B. *)
C2_AttachmentInvariant ==
    \A i, j \in 1 .. Len(em.entities) :
        LET A == em.entities[i]
            B == em.entities[j]
        IN (B.parent = Some(A.id)) <=> (B.id \in Children(A))

(* C3: an orphan-resolution pass removes every orphan no session knows and
   reports it deleted, keeps every orphan some session knows and gives it
   an owner that knows it, and leaves the orphaned set empty. *)
C3_OrphanResolution ==
    [][ (tpc = "orphans" /\ tpc' # "orphans")
        => /\ em'.orphaned = {}
           /\ \A o \in em.orphaned :
                IF \E s \in Sessions : o \in known[s]
                THEN /\ o \in em'.ids
                     /\ o \in EntityIds(em')
                     /\ o \in DOMAIN em'.ownership
                     /\ o \in known[em'.ownership[o]]
                ELSE /\ o \notin em'.ids
                     /\ o \notin EntityIds(em')
                     /\ \E k \in 1 .. Len(em'.deleted) : em'.deleted[k] = o ]_vars

C3_Witness ==
    /\ last.op = "check_orphaned"
    /\ last.arg = {7, 9}
    /\ em.orphaned = {}
    /\ em.deleted = <<7>>
    /\ 9 \in DOMAIN em.ownership
    /\ em.ownership[9] = 1

(* C4: once a full tick has run after a session's stop flag was set, no
   entity is owned by that session any more: each was removed or passed to
   another session. *)
C4_DisconnectOrphansOwned ==
    \A s \in Sessions :
        stopAge[s] = 3 => \A e \in DOMAIN em.ownership : em.ownership[e] # s

\* the entity with that id
EntityOf(m, eid) == m.entities[IndexOf(m.entities, eid)]

\* a position in 32nds, as the wire carries it
Fixed(pos) == <<pos[1][1] * 32 + pos[1][2], pos[2][1] * 32 + pos[2][2],
                pos[3][1] * 32 + pos[3][2]>>

\* the step handles a move of a tracked entity sent by its owner
AcceptedMove ==
    /\ PacketStep
    /\ last'.op \in MoveOps
    /\ last'.tracked
    /\ last'.owner = Some(last'.src)

\* the entities reached from eid through children lists, over entities
\* that have a recorded owner
RECURSIVE Followers(_, _, _)
Followers(m, S, n) ==
    IF n = 0 THEN S
    ELSE Followers(m,
                   S \cup {c \in EntityIds(m) \cap DOMAIN m.ownership :
                             \E e \in S : e \in EntityIds(m)
                                          /\ c \in Children(EntityOf(m, e))},
                   n - 1)

(* C21: after a move of A accepted from A's owner, the move has returned
   and every entity with a recorded owner reached from A through children
   lists has A's new position. *)
C21_ChildrenFollow ==
    [][ AcceptedMove
        => /\ ~crashed'
           /\ \A c \in Followers(em', {last'.eid}, Len(em'.entities)) :
                EntityOf(em', c).pos = EntityOf(em', last'.eid).pos ]_vars

\* scenario B: two relative moves of (+32,0,0), then a teleport
C22_Scenario ==
    LET m0 == Spawn(EmInit, 7, [kind |-> "SpawnMob", type |-> 54,
                                vec |-> <<0, 0, 0>>], 0)
        m1 == entity_move(m0, from_abs_int(<<32, 0, 0>>), FALSE, 7, 0, 0).m
        m2 == entity_move(m1, from_abs_int(<<32, 0, 0>>), FALSE, 7, 0, 0).m
        m3 == entity_move(m2, from_abs_int(<<640, 2048, 320>>), TRUE, 7, 0, 0).m
    IN  /\ EntityOf(m2, 7).pos = <<<<2, 0>>, <<0, 0>>, <<0, 0>>>>
        /\ EntityOf(m3, 7).pos = <<<<20, 0>>, <<64, 0>>, <<10, 0>>>>

(* C22: a teleport accepted from the owner leaves the entity at the
   packet's coordinates divided by 32 whatever its position was, and a
   relative move accepted from the owner adds the packet's delta divided
   by 32 to the position; two moves of (+32,0,0) and a teleport to
   (640,2048,320) leave it at (20,64,10). *)
C22_MoveArithmetic ==
    /\ C22_Scenario
    /\ [][ (AcceptedMove /\ ~crashed')
           => LET old == Fixed(EntityOf(em, last'.eid).pos)
                  new == Fixed(EntityOf(em', last'.eid).pos)
                  vec == last'.arg
              IN  IF last'.op = "teleport"
                  THEN new = vec
                  ELSE new = <<old[1] + vec[1], old[2] + vec[2],
                               old[3] + vec[3]>> ]_vars

\* a teleport lands on the packet's coordinates after a relative move
\* made in the same tick
C22_Witness ==
    /\ last.op = "teleport"
    /\ last.tracked
    /\ last.owner = Some(last.src)
    /\ ~crashed
    /\ EntityOf(em, last.eid).last_movement # Zero3
    /\ Fixed(EntityOf(em, last.eid).pos) = <<48, 64, 0 - 16>>

\* the type the samples of SpecSpawn resolve to
C23_TypeOf(packet) ==
    IF packet.kind = "SpawnMob"
    THEN <<"Mob", IF packet.type = 54 THEN "Zombie" ELSE "Unknown">>
    ELSE <<"Object", IF packet.type = 1 THEN "Boat" ELSE "Unknown">>

(* C23: a spawn from session s for an id that is not tracked adds exactly
   one entity: it has that id, the packet's coordinates divided by 32,
   the type of the wire-code lookup (Unknown for a code the lookup does
   not hold), the new flag, no parent, no children, and owner s; the
   entities already tracked stay as they were. *)
C23_SpawnAddsEntity ==
    [][ (PacketStep /\ last'.op = "spawn" /\ ~last'.tracked)
        => LET eid == last'.eid
               n   == Len(em.entities)
           IN  /\ Len(em'.entities) = n + 1
               /\ \A i \in 1 .. n : em'.entities[i] = em.entities[i]
               /\ eid \notin EntityIds(em)
               /\ em'.entities[n + 1].id = eid
               /\ Fixed(em'.entities[n + 1].pos) = last'.arg.vec
               /\ em'.entities[n + 1].etype = C23_TypeOf(last'.arg)
               /\ em'.entities[n + 1].new
               /\ em'.entities[n + 1].parent = None
               /\ em'.entities[n + 1].children = <<>>
               /\ em'.ids = em.ids \cup {eid}
               /\ DOMAIN em'.ownership = DOMAIN em.ownership \cup {eid}
               /\ em'.ownership[eid] = last'.src
               /\ \A o \in DOMAIN em.ownership \ {eid} :
                     em'.ownership[o] = em.ownership[o] ]_vars

\* scenario A, from session 0, and an unknown mob code next to it
C23_Witness ==
    /\ last.op = "spawn"
    /\ ~last.tracked
    /\ last.arg.type = 49
    /\ Len(em.entities) = 2
    /\ em.entities[1].id = 7
    /\ em.entities[1].etype = <<"Mob", "Zombie">>
    /\ em.entities[1].pos = <<<<10, 0>>, <<64, 0>>, <<10, 0>>>>
    /\ em.ownership[7] = 0
    /\ em.entities[2].etype = <<"Mob", "Unknown">>

(* C24: a spawn for an id that is already tracked leaves the registry as
   it was, whichever session sends it; the registry never holds two
   entities with one id, and its id set is the ids of its entities. *)
C24_DuplicateSpawnIgnored ==
    /\ [](/\ \A i, j \in 1 .. Len(em.entities) :
               em.entities[i].id = em.entities[j].id => i = j
          /\ em.ids = EntityIds(em))
    /\ [][ (PacketStep /\ last'.op = "spawn" /\ last'.tracked)
           => em' = em ]_vars

\* a session that does not own the entity spawns it again, elsewhere
C24_Witness ==
    /\ last.op = "spawn"
    /\ last.tracked
    /\ last.owner # None
    /\ last.owner # Some(last.src)
    /\ Fixed(EntityOf(em, last.eid).pos) # last.arg.vec

(* C26: after a detach of e accepted from e's owner while e was attached
   to a tracked vehicle v, e has no parent and v's children do not hold
   e. *)
C26_DetachUnlinks ==
    [][ ( /\ PacketStep
          /\ last'.op = "detach"
          /\ last'.tracked
          /\ last'.owner = Some(last'.src)
          /\ EntityOf(em, last'.eid).parent # None
          /\ EntityOf(em, last'.eid).parent[1] \in EntityIds(em) )
        => /\ EntityOf(em', last'.eid).parent = None
           /\ last'.eid \notin
                Children(EntityOf(em', EntityOf(em, last'.eid).parent[1])) ]_vars

(* C27: a destroy batch from s leaves every id of the batch that s owned
   without an owner and orphaned, whatever stands before it in the batch,
   and removes no entity. *)
C27_DestroyOrphansOwned ==
    [][ (PacketStep /\ last'.op = "destroy")
        => /\ em'.entities = em.entities
           /\ \A k \in 1 .. Len(last'.arg) :
                LET eid == last'.arg[k]
                IN  (eid \in DOMAIN em.ownership /\ em.ownership[eid] = last'.src)
                    => (eid \notin DOMAIN em'.ownership /\ eid \in em'.orphaned) ]_vars

\* the id is not tracked, or has no recorded owner
Unowned(m, eid) == eid \notin m.ids \/ eid \notin DOMAIN m.ownership

(* C28: a move or an attach/detach of an id that is not tracked or has no
   recorded owner, and a destroy batch of such ids only, leaves the
   registry as it was and is not fatal: the session is still in its batch,
   not stopped, and the game task has not crashed. *)
C28_UnknownIdIsDropped ==
    [][ ( /\ PacketStep
          /\ \/ /\ last'.op \in MoveOps \cup {"attach", "detach"}
                /\ Unowned(em, last'.eid)
             \/ /\ last'.op = "destroy"
                /\ \A k \in 1 .. Len(last'.arg) : Unowned(em, last'.arg[k]) )
        => /\ em' = em
           /\ ~crashed'
           /\ stop' = stop
           /\ tpc' = "player"
           /\ cur' = cur ]_vars

\* a teleport of an entity that lost its owner earlier in the batch, next
\* to an entity that is owned
C28_Witness ==
    /\ last.op = "teleport"
    /\ last.tracked
    /\ last.owner = None
    /\ em.orphaned = {last.eid}
    /\ Len(em.entities) = 2
    /\ ~crashed

(* C29: an orphan-resolution pass never gives an orphan to a session
   whose stop flag is set. *)
C29_NoTransferToStopped ==
    [][ (tpc = "orphans" /\ tpc' # "orphans")
        => \A o \in em.orphaned :
              o \in DOMAIN em'.ownership => ~stop[em'.ownership[o]] ]_vars

\* the tracked entities reached from the ids of S through children lists
RECURSIVE Riders(_, _, _)
Riders(m, S, n) ==
    IF n = 0 THEN S
    ELSE Riders(m,
                S \cup {c \in EntityIds(m) :
                          \E e \in S \cap EntityIds(m) :
                             c \in Children(EntityOf(m, e))},
                n - 1)

(* C36: handling a move always returns, and the children lists of the
   tracked entities never form a cycle: no entity is reached from its own
   children. *)
C36_MoveTerminates ==
    /\ ~crashed
    /\ \A e \in EntityIds(em) :
          e \notin Riders(em, Children(EntityOf(em, e)) \cap EntityIds(em),
                          Len(em.entities))

(* C37: the id set is the set of ids of the stored entities, every id of
   the ownership map is tracked, and every tracked entity has a recorded
   owner or is in the orphaned set. *)
C37_RegistryConsistent ==
    /\ em.ids = EntityIds(em)
    /\ DOMAIN em.ownership \subseteq em.ids
    /\ \A e \in em.ids : e \in DOMAIN em.ownership \/ e \in em.orphaned

\* an entity waiting for the resolution pass next to one that has been
\* through a pass and found a new owner
C37_Witness ==
    /\ tpc = "player"
    /\ cur = 2
    /\ em.ids = {7, 9}
    /\ 9 \in em.orphaned
    /\ 9 \notin DOMAIN em.ownership
    /\ 7 \in DOMAIN em.ownership
    /\ em.ownership[7] = 1
    /\ em.deleted = <<>>

\* the difference of two positions, in 32nds
C38_Diff(a, b) == <<Fixed(a)[1] - Fixed(b)[1], Fixed(a)[2] - Fixed(b)[2],
                    Fixed(a)[3] - Fixed(b)[3]>>

(* C38: at every moment of a tick each entity's last_movement is its
   position minus its last_position, and every entity whose position
   differs from its last_position is in the moved set. *)
C38_LastMovementIsDelta ==
    ~crashed
    => \A i \in 1 .. Len(em.entities) :
         LET e == em.entities[i]
         IN  /\ Fixed(e.last_movement) = C38_Diff(e.pos, e.last_position)
             /\ e.pos # e.last_position => e.id \in em.moved

(* C39: after an orphan-resolution pass has removed an entity, no entity
   left in the registry has the removed id as its parent or among its
   children. *)
C39_NoDanglingReference ==
    [][ (tpc = "orphans" /\ tpc' # "orphans")
        => \A gone \in EntityIds(em) \ EntityIds(em') :
             \A i \in 1 .. Len(em'.entities) :
                /\ em'.entities[i].parent # Some(gone)
                /\ gone \notin Children(em'.entities[i]) ]_vars

(***************************************************************************)
(* Claims on the buffered reader (SpecReader)                              *)
(***************************************************************************)
(* C5: every successful read_bytes(n) returns exactly n bytes, and the
   slices returned so far, put end to end, are the first bytes of the
   inbound stream in order: nothing twice, skipped or out of order. *)
C5_ExactInOrder ==
    /\ rpc # "panic"
    /\ rres.kind = "ok" => Len(rres.slice) = rcount
    /\ \A k \in 1 .. Len(returned) : returned[k].i = k

C5_Witness ==
    /\ rmoved
    /\ rres.kind = "ok"
    /\ Len(rres.slice) = PACKET_SIZE - 1
    /\ Len(returned) > PACKET_SIZE + 1

(* C25: read_bytes(n) with n at or above the ceiling returns the
   oversized-request error at once: the buffer, its position and its count
   of unread bytes, the socket and the bytes handed out so far are all as
   they were, and the reader is ready for the next request, which therefore
   meets the state it would have met without the refused one. *)
C25_OversizedRefused ==
    [][ \A count \in PACKET_SIZE .. MaxRequest :
          (rpc = "idle" /\ rcount' = count /\ rd'.decrypt_enable = rd.decrypt_enable)
          => /\ rres'.kind = "oversized"
             /\ rpc' = "idle"
             /\ rd' = rd
             /\ sock' = sock
             /\ returned' = returned ]_vars

C25_Witness ==
    /\ rres.kind = "oversized"
    /\ rpc = "idle"
    /\ rd.available > 0
    /\ rd.pos > 0
    /\ Len(returned) > 0
    /\ sock <= StreamLen

(* C35: decryption is switched on between two requests, once the
   confirmation packet has been returned; every byte read_bytes returns
   from then on has been through the decrypter exactly once, and every
   byte it returned before has not been through it, however the socket
   split the stream. *)
C35_DecryptedExactlyOnce ==
    [][ \A k \in (Len(returned) + 1) .. Len(returned') :
          returned'[k].d = IF rd.decrypt_enable THEN 1 ELSE 0 ]_vars

(* C40: the unread bytes never reach past the end of the buffer and no
   step of the reader panics; whenever read_bytes reads from the socket,
   the region that follows the unread bytes (after the compaction, if
   there was one) starts inside the buffer, so that the read has room for
   at least one byte and a result of 0 means the stream has ended. *)
C40_ReadHasRoom ==
    /\ [](rpc # "panic" /\ rd.pos + rd.available <= BufSize)
    /\ [][ (rpc = "loop" /\ rd.available < rcount)
           => (rd'.pos + rd'.available) - (sock' - sock) < BufSize ]_vars

\* a read has filled the buffer to its last byte, after a compaction
C40_Witness ==
    /\ rpc = "loop"
    /\ rmoved
    /\ rd.pos + rd.available = BufSize

(***************************************************************************)
(* Claims on Connection::send (SpecSend)                                   *)
(***************************************************************************)
(* C9: send gives up when the socket keeps accepting nothing: once the
   count of consecutive attempts without progress has passed the budget
   of 5, send has returned the budget error and is no longer looping. *)
C9_SendGivesUp ==
    tries > SEND_TRIES => (spc = "done" /\ sres = "err_budget")

(***************************************************************************)
(* Claims on the handshake (SpecConn)                                      *)
(***************************************************************************)
WirePackets == {wire[k].packet : k \in 1 .. Len(wire)}

HandshakesSent == Cardinality({k \in 1 .. Len(wire) : wire[k].packet = "Handshake"})

(* C7: when the first reply is not a key request, or the second is not a
   key response, connect has returned an error: no status packet was
   sent, no decode task runs, and the handshake was sent once only. *)
C7_WrongReplyIsFatal ==
    ( \/ (Len(replies) >= 1 /\ replies[1].kind # "EncryptionKeyRequest")
      \/ (Len(replies) >= 2 /\ replies[2].kind # "EncryptionKeyResponse") )
    => /\ cpc = "returned"
       /\ cres = "err"
       /\ "ClientStatuses" \notin WirePackets
       /\ ~conn.sender_loop
       /\ HandshakesSent = 1

C7_Witness ==
    /\ Len(replies) = 2
    /\ replies[1].kind = "EncryptionKeyRequest"
    /\ replies[2].kind = "Disconnect"
    /\ cres = "err"
    /\ Len(wire) = 2

(* C8: a connect that succeeded has sent the handshake and the key
   response in plaintext and then the status packet encrypted, every
   later packet is encrypted, and decryption was switched on after the
   server's EMPTY key response was decoded and before the status packet
   was sent; decryption is never on before that reply. *)
C8_HandshakeOrder ==
    /\ conn.decrypt_enable
       => /\ Len(replies) = 2
          /\ replies[2] = [kind |-> "EncryptionKeyResponse", empty |-> TRUE]
    /\ cres = "ok"
       => /\ Len(wire) >= 3
          /\ wire[1] = [packet |-> "Handshake", encrypted |-> FALSE]
          /\ wire[2] = [packet |-> "EncryptionKeyResponse", encrypted |-> FALSE]
          /\ wire[3] = [packet |-> "ClientStatuses", encrypted |-> TRUE]
          /\ \A k \in 4 .. Len(wire) : wire[k].encrypted
          /\ conn.decrypt_enable
          /\ decryptAt = <<2, 2>>

(* C8 as amended: the same order of packets and of the decryption switch,
   where the key response that precedes the switch may be empty or not. *)
C8_HandshakeOrderAnyResponse ==
    /\ conn.decrypt_enable
       => /\ Len(replies) = 2
          /\ replies[2].kind = "EncryptionKeyResponse"
    /\ cres = "ok"
       => /\ Len(wire) >= 3
          /\ wire[1] = [packet |-> "Handshake", encrypted |-> FALSE]
          /\ wire[2] = [packet |-> "EncryptionKeyResponse", encrypted |-> FALSE]
          /\ wire[3] = [packet |-> "ClientStatuses", encrypted |-> TRUE]
          /\ \A k \in 4 .. Len(wire) : wire[k].encrypted
          /\ conn.decrypt_enable
          /\ decryptAt = <<2, 2>>

C8_Witness ==
    /\ cres = "ok"
    /\ Len(wire) = 5
    /\ wire[5].packet = "PlayerPositionAndLook"

(***************************************************************************)
(* Claims on the decode task and the inbound queue (SpecNet)               *)
(***************************************************************************)
HeldSeq(s) == IF held[s] = None THEN <<>> ELSE <<held[s][1]>>

(* C6: the inbound queue of a session never holds more than its capacity,
   and what the session has received, followed by what the queue holds
   and by the packet the suspended task holds, is exactly what was
   decoded, in that order: nothing dropped, repeated or reordered. *)
C6_BoundedFifo ==
    \A s \in Sessions :
        /\ Len(inbound[s]) <= QueueCap
        /\ delivered[s] \o inbound[s] \o HeldSeq(s) = decoded[s]

C6_Witness ==
    /\ Len(inbound[0]) = QueueCap
    /\ sender_loop[0] = "sending"
    /\ ~CanSend(inbound[0])
    /\ Len(delivered[0]) > 0

(* C10: once decoding has failed in a session, on end of stream or on an
   unknown identifier, its decode task has ended and stays ended, decodes
   and enqueues nothing more, the step in which it fails leaves the
   tasks and queues of the other sessions as they were, and a task of
   another session that is reading can still decode a packet. *)
C10_DecodeFailureIsFinal ==
    [][ \A s \in Sessions :
          /\ failed'[s] # "no" => sender_loop'[s] = "ended"
          /\ failed[s] # "no"
             => /\ sender_loop'[s] = "ended"
                /\ failed'[s] = failed[s]
                /\ decoded'[s] = decoded[s]
                /\ delivered'[s] \o inbound'[s] = delivered[s] \o inbound[s]
                /\ \A t \in Sessions \ {s} :
                     (sender_loop[t] = "reading" /\ Len(decoded[t]) < MaxDecoded)
                     => ENABLED DecodeRead(t, 0)
          /\ (failed[s] = "no" /\ failed'[s] # "no")
             => \A t \in Sessions \ {s} :
                  /\ sender_loop'[t] = sender_loop[t]
                  /\ inbound'[t] = inbound[t]
                  /\ held'[t] = held[t] ]_vars

C10_Witness ==
    /\ failed[0] = "unknown_id"
    /\ failed[1] = "no"
    /\ since[0]
    /\ Len(inbound[1]) > 0

(***************************************************************************)
(* Claims on the sessions, their tasks and the game loop (SpecSession)     *)
(***************************************************************************)
InHandlerSend(s) == gpc = "send" /\ players[gcur] = s

(* C11: a session whose packet handling raised a session-fatal error (a
   failed send) is stopped, and the game loop lives on to tick the other
   sessions. *)
C11_FatalErrorStopsOnlySession ==
    \A s \in fatal : gpc # "panicked" /\ plr[s].stop

(* C12: once a session has signalled stop and its tick step is over, its
   position-update task is cancelled and its decode task has ended: it
   neither reads the socket nor waits on the inbound queue. *)
C12_StopEndsBothTasks ==
    \A s \in Sessions :
        (plr[s].stop /\ gpc = "idle")
        => (ppc[s] = "cancelled" /\ dpc[s] = "ended")

(* C13: once the stop flag of a session is set, no packet of that session
   is handed to handle_packet any more and its Player does not change:
   the rest of the batch and whatever is queued or decoded later stays
   unhandled. *)
C13_NoPacketAfterStop ==
    [][ \A s \in Sessions :
          plr[s].stop => (handled'[s] = handled[s] /\ plr'[s] = plr[s]) ]_vars

C13_Witness ==
    /\ plr[0].stop
    /\ after[0] = 2
    /\ rxq[0] # <<>>
    /\ handled[0] < streamed[0]

(* C14: when the decode task of a session has ended on a decode error and
   a tick that started after it is over, the session is stopped and its
   position-update task is cancelled. *)
C14_DecodeFailureTearsDown ==
    \A s \in Sessions :
        (endAge[s] = 2 /\ gpc = "idle") => (plr[s].stop /\ ppc[s] = "cancelled")

(* C15: while a send on a session's connection is in progress, in the
   position-update task or in the tick step, the guard of that session
   is not held. *)
C15_NoGuardAcrossSend ==
    \A s \in Sessions :
        (ppc[s] = "send" \/ InHandlerSend(s)) => lock[s] = "free"

(* C16: the position-update task enters send in a period only if the
   position differs from the one it saw in the previous period. *)
C16_SendsOnlyOnChange ==
    [][ \A s \in Sessions :
          (ppc[s] = "interval" /\ ppc'[s] = "send") => plr[s].pos # prevPos[s] ]_vars

(* C17: while the socket of a session delivers nothing (its decode task
   waits in try_read and its queue is empty) the tick step is not held
   up by that session's recv, and the decode tasks of the other sessions
   can still decode and enqueue. *)
C17_StallIsLocal ==
    \A s \in Sessions :
        (dpc[s] = "reading" /\ rxq[s] = <<>>)
        => /\ (gpc = "recv" /\ players[gcur] = s) => ENABLED GameRecv
           /\ \A t \in Sessions \ {s} :
                /\ (dpc[t] = "reading" /\ Streamed < MaxStream)
                   => ENABLED SessDecode(t, "KeepAlive")
                /\ (dpc[t] = "sending" /\ CanSend(rxq[t]))
                   => ENABLED SessDecodeSend(t)

C17_Witness ==
    /\ streamed[0] = 0
    /\ dpc[0] = "reading"
    /\ handled[1] >= 2
    /\ gpc = "idle"

(* C30: the recv of a tick never suspends it: whatever the queue holds,
   the step is enabled; on an empty queue it leaves the caller's buffer
   and the queue as they were; otherwise it moves at least one and at
   most RecvLimit packets, the oldest first and in their order, leaving
   the others queued. *)
C30_RecvNeverWaits ==
    /\ [](gpc = "recv" => ENABLED GameRecv)
    /\ [][ (gpc = "recv" /\ gpc' # "recv")
            => LET s == players[gcur]
               IN /\ rxq[s] = <<>> => (batch' = batch /\ rxq' = rxq)
                  /\ rxq[s] # <<>>
                     => /\ Len(batch') \in 1 .. RecvLimit
                        /\ batch' \o rxq'[s] = batch \o rxq[s]
                        /\ \A t \in Sessions \ {s} : rxq'[t] = rxq[t] ]_vars

C30_Witness ==
    /\ gpc = "batch"
    /\ Len(batch) = RecvLimit
    /\ batch[1] # batch[RecvLimit]
    /\ rxq[players[gcur]] = <<>>
    /\ dpc[players[gcur]] = "reading"

(***************************************************************************)
(* Claims on concurrent sends (SpecWire)                                   *)
(***************************************************************************)
(* C34: on the wire the bytes of a packet are never parted by a byte of
   another packet, and with encryption on the bytes reach the wire in the
   order in which they went through the cipher: the i-th byte on the wire
   is the i-th byte of the cipher stream. *)
C34_SendsDoNotInterleave ==
    /\ \A i, j \in 1 .. Len(xwire) :
          (i < j /\ xwire[i].no = xwire[j].no)
          => \A m \in i .. j : xwire[m].no = xwire[i].no
    /\ xenc = "encrypted" => \A i \in 1 .. Len(xwire) : xwire[i].c = i

(***************************************************************************)
(* Claims on the packet codec (SpecCodec)                                  *)
(***************************************************************************)
(* C18: reading back the bytes write produced for a packet yields the
   same packet and consumes exactly those bytes. *)
C18_RoundTrip ==
    kpc = "read" => (kres.ok /\ kres.v = kpacket /\ kres.pos = kwritten)

(* C33: the bytes written for a string field start with a 16-bit prefix
   that is the number of UTF-16 code units following it, two bytes each,
   and reading the field back consumes exactly the bytes written: shown
   on ChatMessage, whose only field is a string. *)
C33_StringPrefixCountsUnits ==
    (kpacket.id = 3 /\ kpc \in {"written", "read"})
    => LET str == kpacket.fields[1]
       IN  /\ from_be_bytes(SubSeq(kbytes, 2, 3), FALSE) = Len(str)
           /\ kwritten = 1 + 2 + 2 * Len(str)
           /\ kpc = "read" => (kres.ok /\ kres.pos = kwritten)

(***************************************************************************)
(* Claims on the world (SpecParse, SpecWorld)                              *)
(***************************************************************************)
\* the sub-chunks a column's primary mask names
PrimaryYs(meta) == {y \in 0..15 : Bit(meta.primary, y)}

\* the bytes one column accounts for
ColumnLen(meta, skylight, ground_up) ==
    Cardinality(PrimaryYs(meta)) * (4096 + 2048 + 2048)
    + (IF skylight THEN Cardinality(PrimaryYs(meta)) * 2048 ELSE 0)
    + Cardinality({y \in PrimaryYs(meta) : Bit(meta.add, y)}) * 2048
    + (IF ground_up THEN 256 ELSE 0)

\* the length a packet's header accounts for; a chunk packet always carries
\* skylight, a bulk packet is always ground-up continuous
DeclaredLen(data) ==
    LET metas == IF data.kind = "ChunkData"
                 THEN <<data.metainfo>> ELSE data.metainfo
        sky   == IF data.kind = "ChunkData" THEN TRUE ELSE data.has_skylight
        gu    == IF data.kind = "ChunkData"
                 THEN data.ground_up_continuous ELSE TRUE
    IN  SumSeq([k \in 1..Len(metas) |-> ColumnLen(metas[k], sky, gu)])

(* C19: parsing a chunk or bulk-chunk payload returns exactly when the
   decompressed length is the sum over the columns of 4096 + 2048 + 2048
   per sub-chunk of the primary mask, 2048 more per such sub-chunk with
   skylight, 2048 more per such sub-chunk whose add bit is set, and 256
   more when ground-up continuous; with any other length it panics. *)
C19_ParseLength ==
    chpc = "parsed" => (chout.ok <=> chin.decompressed.len = DeclaredLen(chin))

C19_Witness ==
    /\ chpc = "parsed"
    /\ chout.ok
    /\ chin.kind = "ChunkDataBulk"
    /\ ~chin.has_skylight
    /\ Len(chin.metainfo) = 2
    /\ chin.metainfo[1].primary = 32769
    /\ chin.metainfo[1].add = 3
    /\ chin.metainfo[2].primary = 1

\* the ChunkMetainfo list of a chunk packet
MetasOf(data) == IF data.kind = "ChunkData" THEN <<data.metainfo>> ELSE data.metainfo

(* C32: after a payload is parsed, each block of a sub-chunk whose add bit
   is set has the id byte + 256 * nibble, the nibble being the low half of
   its add byte for a block at an even index and the high half for one at
   an odd index. *)
C32_AddNibbleShifted ==
    (chpc = "parsed" /\ chout.ok)
    => \A j \in 1 .. Len(MetasOf(chin)) :
         LET meta == MetasOf(chin)[j]
             column == chout.columns[<<meta.x, meta.z>>]
             byte == chin.decompressed.byte
         IN  \A k \in 1 .. COLUMN_CHUNKS :
               (column.chunks[k] # None /\ Bit(meta.add, k - 1))
               => \A i \in Probes :
                    column.chunks[k][1].blocks[i].id = byte + 256 * Nibble(byte, i)

\* a position get_block owes the air block for
AirCase(cols, pos) ==
    LET key == <<pos[1] \div 16, pos[3] \div 16>>
    IN  \/ pos[2] < 0
        \/ key \notin DOMAIN cols
        \/ pos[2] >= 16 * Len(cols[key].chunks)
        \/ cols[key].chunks[pos[2] \div 16 + 1] = None

(* C20: get_block never panics, and it returns the air block for a
   position below y zero, in a column that is not loaded, in an absent
   sub-chunk of a loaded column, or above the top of the column. *)
C20_GetBlockAir ==
    wgot # None =>
        /\ ~wgot[1].res.panic
        /\ AirCase(columns, wgot[1].pos) => wgot[1].res.block = AIR

\* a lookup in an unloaded column while another column holds blocks, and
\* one in an absent sub-chunk of a column that holds blocks
C20_Witness ==
    /\ wgot # None
    /\ wgot[1].res = Returned(AIR)
    /\ wgot[1].pos[2] >= 0
    /\ <<0, 0>> \in DOMAIN columns
    /\ columns[<<0, 0>>].chunks[1] # None
    /\ \/ <<wgot[1].pos[1] \div 16, wgot[1].pos[3] \div 16>> \notin DOMAIN columns
       \/ /\ wgot[1].pos = <<15, 17, 1>>
          /\ columns[<<0, 0>>].chunks[2] = None

\* the positions compared before and after a block change: in and around
\* the columns the packets reach, at the in-chunk indices a chunk keeps
C31_Positions ==
    {p \in {0 - 17, 0 - 16, 0 - 1, 0, 1, 15, 16, 17}
           \X {0, 1, 15, 16, 17, 255} \X {0, 1} :
        BlockIndex(p[1] % 16, p[3] % 16, p[2] % 16) \in Probes}

(* C31: a block change at (x, y, z) with y in 0..255 does not panic;
   afterwards get_block((x, y, z)) has the id and metadata of the change,
   the block lies in the column (cx, cz) with 16*cx <= x < 16*cx + 16 and
   16*cz <= z < 16*cz + 16, which exists, every other column is as it
   was, and get_block gives what it gave before at every other position. *)
C31_SetBlockThenGet ==
    [][ \A c \in WorldBlockChanges :
          WorldBlockChange(c[1], c[2], c[3], c[4], c[5])
          => LET pos == <<c[1], c[2], c[3]>>
             IN  /\ wpc' = "running"
                 /\ get_block(columns', pos).block.id = c[4]
                 /\ get_block(columns', pos).block.metadata = c[5]
                 /\ \E key \in DOMAIN columns' :
                       /\ 16 * key[1] <= c[1] /\ c[1] < 16 * key[1] + 16
                       /\ 16 * key[2] <= c[3] /\ c[3] < 16 * key[2] + 16
                       /\ DOMAIN columns' = DOMAIN columns \cup {key}
                       /\ \A k \in DOMAIN columns \ {key} :
                             columns'[k] = columns[k]
                       /\ \E i \in Probes :
                             columns'[key].chunks[c[2] \div 16 + 1][1].blocks[i].id
                               = c[4]
                 /\ \A p \in C31_Positions \ {pos} :
                       get_block(columns', p) = get_block(columns, p) ]_vars

\* a change at a negative x made a column west of the loaded ones
C31_Witness ==
    /\ wpc = "running"
    /\ <<0 - 1, 0>> \in DOMAIN columns
    /\ <<0, 0>> \in DOMAIN columns
    /\ columns[<<0, 0>>].chunks[1] # None
    /\ get_block(columns, <<0 - 1, 17, 0>>).block.id = 1
    /\ get_block(columns, <<15, 17, 1>>).block = AIR

=============================================================================
